---------------------------- MODULE Spec2Model ----------------------------
(***************************************************************************)
(* OratioViva backend: the job store (backend/jobs.py), the history log    *)
(* and the request handlers (backend/main.py), the retention sweep         *)
(* (backend/cleanup.py).                                                   *)
(*                                                                         *)
(* Three specifications share the variables:                               *)
(*   SpecStore    the JobStore class driven by concurrent callers, its     *)
(*                lock explicit;                                           *)
(*   Spec         the application: submission, the job run, deletions;     *)
(*   SpecCleanup  cleanup_outputs over an arbitrary on-disk state, next to *)
(*                an append_history of a fresh entry.                      *)
(***************************************************************************)
EXTENDS Integers, Sequences, FiniteSets, TLC

(* ------------------------------ bounds --------------------------------- *)

\* job ids handed out (uuid4 values: each one fresh)
MaxJobs == 2

\* the clock's last value
MaxTime == 1

\* JobStore(max_items=...): the cap of the persisted document
MaxItems == 1

\* cleanup_outputs(max_age_hours=...), in ticks of the clock
MaxAgeHours == 1

\* cleanup_outputs(max_history=...)
MaxHistory == 1

(* --------------------------- basic values ------------------------------ *)

\* Python's None, and a present optional value
None == << >>

Some(v) == <<v>>

JobIds == 1 .. MaxJobs

Times == 0 .. MaxTime

\* datetime.isoformat(): the text of a timestamp
IsoFormat(t) == <<"iso", t>>

\* datetime.fromisoformat(): the timestamp of a text, None when it raises
FromIsoFormat(s) == IF Len(s) = 2 /\ s[1] = "iso" THEN Some(s[2]) ELSE None

Statuses == {"queued", "running", "succeeded", "failed"}

Terminal == {"succeeded", "failed"}

(* ------------------------------ JobStore ------------------------------- *)

\* destination = self.audio_dir / f"{job_id}.wav": the artifact's file name
FileName(id) == [stem |-> id, ext |-> "wav"]

\* the URL base the service is built with (main.py: base_audio_url="/audio")
BaseAudioUrl == "/audio"

\* audio_url = f"{self.base_audio_url}/{destination.name}"
AudioUrl(id) == [base |-> BaseAudioUrl, name |-> FileName(id)]

\* JobStatus(job_id, status, created_at, updated_at): the other fields default to None
JobStatus(id, status, created, updated) ==
  [job_id |-> id, status |-> status, created_at |-> created, updated_at |-> updated,
   audio_url |-> None, duration_seconds |-> None, model |-> None,
   voice_id |-> None, source |-> None, error |-> None]

\* self._jobs is a dict: a sequence of jobs in insertion order, one per key
JobIndex(js, id) ==
  IF \E i \in 1 .. Len(js) : js[i].job_id = id
  THEN CHOOSE i \in 1 .. Len(js) : js[i].job_id = id
  ELSE 0

HasJob(js, id) == JobIndex(js, id) # 0

\* self._jobs.get(job_id)
GetJob(js, id) == IF HasJob(js, id) THEN Some(js[JobIndex(js, id)]) ELSE None

\* self._jobs[job_id] = job: in place for a known key, at the end for a new one
DictSet(js, id, job) ==
  IF HasJob(js, id) THEN [js EXCEPT ![JobIndex(js, id)] = job] ELSE Append(js, job)

\* self._jobs.pop(job_id, None)
DictPop(js, id) ==
  IF HasJob(js, id)
  THEN SubSeq(js, 1, JobIndex(js, id) - 1) \o SubSeq(js, JobIndex(js, id) + 1, Len(js))
  ELSE js

\* s[:n]: the first n items; for a negative n, all but the last -n
Take(s, n) ==
  SubSeq(s, 1, IF n < 0 THEN (IF Len(s) + n > 0 THEN Len(s) + n ELSE 0)
               ELSE IF n < Len(s) THEN n ELSE Len(s))

RECURSIVE InsertByUpdated(_, _)
\* one step of the stable sort: job goes after every job at least as recent
InsertByUpdated(sorted, job) ==
  IF sorted = << >> THEN <<job>>
  ELSE IF Head(sorted).updated_at >= job.updated_at
       THEN <<Head(sorted)>> \o InsertByUpdated(Tail(sorted), job)
       ELSE <<job>> \o sorted

RECURSIVE SortedByUpdated(_)
\* sorted(self._jobs.values(), key=lambda j: j.updated_at, reverse=True): stable
SortedByUpdated(js) ==
  IF js = << >> THEN << >>
  ELSE InsertByUpdated(SortedByUpdated(SubSeq(js, 1, Len(js) - 1)), js[Len(js)])

\* JobStore._serialize: the timestamps become ISO text
Serialize(job) ==
  [job EXCEPT !.created_at = IsoFormat(@), !.updated_at = IsoFormat(@)]

\* JobStore._save when the write goes through: the document written
SavedDocument(js) ==
  LET kept == Take(SortedByUpdated(js), MaxItems)
  IN  [i \in 1 .. Len(kept) |-> Serialize(kept[i])]

\* JobStore._save: the document after the call; write_text may raise OSError (ok = FALSE)
Save(js, doc, ok) == IF ok THEN SavedDocument(js) ELSE doc

\* JobStore._deserialize: None when a timestamp does not parse
Deserialize(data) ==
  IF FromIsoFormat(data.created_at) = None \/ FromIsoFormat(data.updated_at) = None
  THEN None
  ELSE Some([data EXCEPT !.created_at = FromIsoFormat(@)[1],
                         !.updated_at = FromIsoFormat(@)[1]])

RECURSIVE LoadJobs(_)
\* JobStore._load: the _jobs of a fresh store built over the document
LoadJobs(doc) ==
  IF doc = << >> THEN << >>
  ELSE LET loaded == LoadJobs(SubSeq(doc, 1, Len(doc) - 1))
           job == Deserialize(doc[Len(doc)])
       IN  IF job = None THEN loaded ELSE DictSet(loaded, job[1].job_id, job[1])

\* an update that stamps created_at as well as updated_at
UpdatedJobRestamped(job, fields, t) ==
  [[k \in DOMAIN job |-> IF k \in DOMAIN fields THEN fields[k] ELSE job[k]]
     EXCEPT !.updated_at = t, !.created_at = t]

\* data = job.__dict__.copy(); data.update(fields); data["updated_at"] = now
UpdatedJob(job, fields, t) ==
  [[k \in DOMAIN job |-> IF k \in DOMAIN fields THEN fields[k] ELSE job[k]]
     EXCEPT !.updated_at = t]

\* JobStore.list(limit)
ListJobs(js, limit) == Take(SortedByUpdated(js), limit)


(* ------------------------------ state ---------------------------------- *)

VARIABLES
  jobs,      \* JobStore._jobs: the jobs in the dict's insertion order
  jobsDoc,   \* jobs.json: the list _save wrote last
  lock,      \* JobStore._lock: "free" or the caller holding it
  th,        \* SpecStore: each caller's position in its JobStore call
  now,       \* datetime.now(timezone.utc)
  history,   \* history.json: the entries, head first
  files,     \* the audio directory: <job id>.wav -> its mtime, None when absent
  stuck,     \* the audio files whose unlink raises OSError
  run,       \* each submitted request's position in synthesize/_run_job
  dh,        \* the position of a delete_history_entry call
  removed,   \* history: the job ids a delete_history_entry call has removed
  cl,        \* the position of a cleanup_outputs call and what it counted
  tts,       \* TTSService: its configuration, what it finds installed, its last answer
  ex,        \* the last export_zip call: the ids asked for and its answer
  ls,        \* the last list call (job_list or history): its limit and its items
  mm         \* ModelManager: its lock, its flag, each download call's position

storeVars == <<jobs, jobsDoc>>

appVars == <<history, files, stuck, run, dh, removed, cl, tts, ex, ls, mm>>

vars ==
  <<jobs, jobsDoc, lock, th, now, history, files, stuck, run, dh, removed, cl, tts, ex,
    ls, mm>>

(* ------------------------- the history log ----------------------------- *)

\* _record_history: the entry of a result (the fields the handlers read)
HistoryEntry(id, created) ==
  [job_id |-> id, audio_path |-> Some(id), audio_url |-> Some(AudioUrl(id)),
   created_at |-> IsoFormat(created)]

\* an entry of the history carries this job id
HasEntry(h, id) == \E i \in 1 .. Len(h) : h[i].job_id = id

\* append_history, between load_history and write_history: history.insert(0, entry)
Inserted(h, entry) == <<entry>> \o h

RECURSIVE Remaining(_, _)
\* delete_history_entry: the entries kept, those of another job id
Remaining(h, id) ==
  IF h = << >> THEN << >>
  ELSE IF Head(h).job_id = id THEN Remaining(Tail(h), id)
       ELSE <<Head(h)>> \o Remaining(Tail(h), id)

\* Path(audio_path).exists()
PathExists(fs, path) == fs[path[1]] # None

(* ------------------------- the calls in flight ------------------------- *)

\* a request not yet submitted
NoRun == [pc |-> "none", voice |-> "", created |-> 0, snap |-> << >>, err |-> "",
          wrote |-> FALSE, ret |-> None]

DhIdle == [pc |-> "idle", id |-> 0, audio |-> FALSE, snap |-> << >>]

\* no list call answered yet
LsIdle == [pc |-> "idle", limit |-> 0, items |-> << >>]

\* the requests to /models/download that may be in flight together
MaxDownloaders == 3

Downloaders == 1 .. MaxDownloaders

\* a request that has not called models_download
DlNone == [pc |-> "idle", left |-> 0, saw |-> FALSE, out |-> "", ans |-> ""]

\* ModelManager.__init__: _lock = threading.Lock() (0: not held), _downloading = False
MmIdle == [lock |-> 0, downloading |-> FALSE, call |-> [c \in Downloaders |-> DlNone]]

\* no export_zip call answered yet
ExIdle == [pc |-> "idle", ids |-> {}, status |-> 0, names |-> << >>]

\* no cleanup_outputs call under way; the counts are those of the last call
ClIdle == [pc |-> "idle", t |-> 0, swept |-> {}, snap |-> << >>, before |-> << >>,
           removed_files |-> 0, removed_history |-> 0, remaining_history |-> 0,
           seq |-> 0, prior |-> 0]

\* another operation ran: the cleanup calls are no longer in immediate succession
Interrupted(c) == [c EXCEPT !.seq = 0]

\* tts_service = TTSService(provider=TTS_PROVIDER, hf_token=HF_TOKEN, models_dir=...,
\* model_manager=model_manager) with the defaults of the environment; supported,
\* listed, candidate and any_local are what the service finds installed and on disk
MainService ==
  [provider |-> "auto", hf_token |-> FALSE, manager |-> TRUE, models_dir |-> TRUE,
   supported |-> FALSE, listed |-> FALSE, candidate |-> FALSE, any_local |-> FALSE,
   given |-> FALSE, resolved |-> None,
   use_stub |-> FALSE, fallback_stub |-> FALSE, req |-> None, out |-> None]

(* ----------------- SpecStore: JobStore under callers ------------------- *)

Threads == {"t1", "t2"}

\* the keyword arguments update is called with
UpdateKinds == {"running", "failed", "voice"}

\* the fields each call passes (main.py: _run_job passes the first three)
Fields(kind, id) ==
  CASE kind = "running" -> [status |-> "running"]
    [] kind = "succeeded" ->
         [status |-> "succeeded", audio_url |-> Some(AudioUrl(id)), duration_seconds |-> Some(1),
          model |-> Some("model"), voice_id |-> Some("voice"), source |-> Some("stub")]
    [] kind = "failed" -> [status |-> "failed", error |-> Some("error")]
    [] OTHER -> [voice_id |-> Some("voice")]

Idle == [pc |-> "idle", id |-> 0, kind |-> "", data |-> None, ret |-> ""]

\* a lock that never blocks: what update would be without `with self._lock`
LockFreeBroken(l) == TRUE

\* Lock.acquire() returns only when no caller holds the lock
LockFree(l) == l = "free"

\* a create that stamps updated_at from a second, later reading of the clock
NewJobLateStamp(id, t) == JobStatus(id, "queued", t, t + 1)

\* create: now = datetime.now(); JobStatus(job_id, status="queued", created_at=now, updated_at=now)
NewJob(id, t) == JobStatus(id, "queued", t, t)

\* a flush whose OSError is caught inside the store
FlushOutcomeSwallowed(ok, ret) == ret

\* what the call gives its caller after self._save(): its value, or the OSError that
\* write_text raised and nothing in the store catches
FlushOutcome(ok, ret) == IF ok THEN ret ELSE "OSError"

\* a caller enters create: now is read and the job built before the lock is taken
CallCreate(t, id) ==
  /\ th[t].pc = "idle"
  /\ th' = [th EXCEPT ![t] = [Idle EXCEPT !.pc = "create", !.id = id,
                                         !.data = Some(NewJob(id, now))]]
  /\ UNCHANGED <<jobs, jobsDoc, lock, now, appVars>>

\* with self._lock: self._jobs[job_id] = job; self._save()
Create(t, ok) ==
  /\ th[t].pc = "create"
  /\ LockFree(lock)
  /\ jobs' = DictSet(jobs, th[t].id, th[t].data[1])
  /\ jobsDoc' = Save(jobs', jobsDoc, ok)
  /\ th' = [th EXCEPT ![t] = [Idle EXCEPT !.ret = FlushOutcome(ok, "job")]]
  /\ UNCHANGED <<lock, now, appVars>>

CallUpdate(t, id, kind) ==
  /\ th[t].pc = "idle"
  /\ th' = [th EXCEPT ![t] = [Idle EXCEPT !.pc = "update", !.id = id, !.kind = kind]]
  /\ UNCHANGED <<jobs, jobsDoc, lock, now, appVars>>

\* an update that inserts the job it does not find (an upsert)
UnknownJobInserted(js, id) == Append(js, JobStatus(id, "queued", 0, 0))

\* if job is None: raise KeyError: self._jobs after the raise
UnknownJobRaises(js, id) == js

\* with self._lock: job = self._jobs.get(job_id); KeyError when it is None
UpdateRead(t) ==
  /\ th[t].pc = "update"
  /\ LockFree(lock)
  /\ IF HasJob(jobs, th[t].id)
     THEN /\ lock' = t
          /\ jobs' = jobs
          /\ th' = [th EXCEPT ![t].pc = "update_write", ![t].data = GetJob(jobs, th[t].id)]
     ELSE /\ lock' = lock
          /\ jobs' = UnknownJobRaises(jobs, th[t].id)
          /\ th' = [th EXCEPT ![t] = [Idle EXCEPT !.ret = "KeyError"]]
  /\ UNCHANGED <<jobsDoc, now, appVars>>

\* data.update(fields); updated_at = now; self._jobs[job_id] = job; self._save(); release
UpdateWrite(t, ok) ==
  /\ th[t].pc = "update_write"
  /\ LET job == UpdatedJob(th[t].data[1], Fields(th[t].kind, th[t].id), now)
     IN  /\ jobs' = DictSet(jobs, th[t].id, job)
         /\ jobsDoc' = Save(jobs', jobsDoc, ok)
         /\ th' = [th EXCEPT ![t] = [Idle EXCEPT !.ret = FlushOutcome(ok, "job")]]
  /\ lock' = "free"
  /\ UNCHANGED <<now, appVars>>

CallDelete(t, id) ==
  /\ th[t].pc = "idle"
  /\ th' = [th EXCEPT ![t] = [Idle EXCEPT !.pc = "delete", !.id = id]]
  /\ UNCHANGED <<jobs, jobsDoc, lock, now, appVars>>

\* JobStore.delete: False for an unknown id, else pop, save, True
Delete(t, ok) ==
  /\ th[t].pc = "delete"
  /\ LockFree(lock)
  /\ IF HasJob(jobs, th[t].id)
     THEN /\ jobs' = DictPop(jobs, th[t].id)
          /\ jobsDoc' = Save(jobs', jobsDoc, ok)
          /\ th' = [th EXCEPT ![t] = [Idle EXCEPT !.ret = FlushOutcome(ok, "True")]]
     ELSE /\ ok
          /\ UNCHANGED <<jobs, jobsDoc>>
          /\ th' = [th EXCEPT ![t] = [Idle EXCEPT !.ret = "False"]]
  /\ UNCHANGED <<lock, now, appVars>>

\* the clock moves on
Tick ==
  /\ now < MaxTime
  /\ now' = now + 1
  /\ cl' = Interrupted(cl)
  /\ UNCHANGED <<jobs, jobsDoc, lock, th, history, files, stuck, run, dh, removed, tts, ex, ls, mm>>

InitStore ==
  /\ jobs = << >>
  /\ jobsDoc = << >>
  /\ lock = "free"
  /\ th = [t \in Threads |-> Idle]
  /\ now = 0
  /\ history = << >>
  /\ files = [id \in JobIds |-> None]
  /\ stuck = {}
  /\ run = [id \in JobIds |-> NoRun]
  /\ dh = DhIdle
  /\ removed = {}
  /\ cl = ClIdle
  /\ tts = MainService
  /\ ex = ExIdle
  /\ ls = LsIdle
  /\ mm = MmIdle

NextStore ==
  \/ \E t \in Threads, id \in JobIds : CallCreate(t, id)
  \/ \E t \in Threads : Create(t, TRUE)
  \/ \E t \in Threads, id \in JobIds, kind \in UpdateKinds : CallUpdate(t, id, kind)
  \/ \E t \in Threads : UpdateRead(t)
  \/ \E t \in Threads : UpdateWrite(t, TRUE)
  \/ \E t \in Threads, id \in JobIds : CallDelete(t, id)
  \/ \E t \in Threads : Delete(t, TRUE)
  \/ Tick

SpecStore == InitStore /\ [][NextStore]_vars

(* ------------- SpecFlush: JobStore calls whose flush may fail ----------- *)

\* the calls of SpecStore, with a write_text that may raise OSError
NextFlush ==
  \/ \E t \in Threads, id \in JobIds : CallCreate(t, id)
  \/ \E t \in Threads, ok \in BOOLEAN : Create(t, ok)
  \/ \E t \in Threads, id \in JobIds, kind \in UpdateKinds : CallUpdate(t, id, kind)
  \/ \E t \in Threads : UpdateRead(t)
  \/ \E t \in Threads, ok \in BOOLEAN : UpdateWrite(t, ok)
  \/ \E t \in Threads, id \in JobIds : CallDelete(t, id)
  \/ \E t \in Threads, ok \in BOOLEAN : Delete(t, ok)

SpecFlush == InitStore /\ [][NextFlush]_vars

(* ------------------- Spec: the application (main.py) ------------------- *)

\* the voice ids a request may carry; VOICE_BY_ID holds the first
Voices == {"kokoro_en_us_0", "no_such_voice"}

\* a registry lookup that accepts any id: synthesize without its VOICE_BY_ID check
VoiceRegisteredAny(v) == TRUE

\* voice_id in VOICE_BY_ID
VoiceRegistered(v) == v = "kokoro_en_us_0"

\* str(uuid.uuid4()): an id no request had before
FreshId(id) == run[id].pc = "none" /\ \A k \in JobIds : k < id => run[k].pc # "none"

\* synthesize: job_store.create(job_id, "queued"), then _run_job (at once, or as a
\* background task); a failed flush raises out of the handler and nothing runs
Submit(id, v, ok) ==
  /\ FreshId(id)
  /\ jobs' = DictSet(jobs, id, NewJob(id, now))
  /\ jobsDoc' = Save(jobs', jobsDoc, ok)
  /\ run' = [run EXCEPT ![id] = [NoRun EXCEPT !.pc = IF ok THEN "queued" ELSE "crashed",
                                             !.voice = v]]
  /\ UNCHANGED <<lock, th, now, history, files, stuck, dh, removed, cl, tts, ex, ls, mm>>

\* an update that puts back the job it does not find
RunUpdateUpserts(js, id) == Append(js, JobStatus(id, "failed", 0, 0))

\* _run_job's job_store.update for an id the store does not hold: KeyError is
\* raised under the lock and self._jobs is left as it is
RunUpdateUnknown(js, id) == UnknownJobRaises(js, id)

\* a background task that starts as soon as it is added
RunnableOnceAdded(r) == r.pc \in {"added", "queued"}

\* _run_job may start: called by the handler itself, or, as a background task,
\* once the handler has returned its response
Runnable(r) == r.pc = "queued"

\* a first update placed inside the try, its KeyError handled by the except clause
FirstUpdateCaught == "raised"

\* the first update stands before the try: its KeyError ends _run_job
FirstUpdateRaised == "crashed"

\* _run_job: job_store.update(job_id, status="running"), outside the try
RunStart(id, ok) ==
  /\ Runnable(run[id])
  /\ IF HasJob(jobs, id)
     THEN /\ jobs' = DictSet(jobs, id, UpdatedJob(GetJob(jobs, id)[1], Fields("running", id), now))
          /\ jobsDoc' = Save(jobs', jobsDoc, ok)
          /\ run' = [run EXCEPT ![id].pc = IF ok THEN "running" ELSE "crashed"]
     ELSE /\ ok
          /\ jobs' = RunUpdateUnknown(jobs, id)
          /\ jobsDoc' = jobsDoc
          /\ run' = [run EXCEPT ![id].pc = FirstUpdateRaised, ![id].err = "KeyError"]
  /\ UNCHANGED <<lock, th, now, history, files, stuck, dh, removed, cl, tts, ex, ls, mm>>

\* tts_service.synthesize: ValueError for an unknown voice, before anything is
\* written; else the artifact <job id>.wav is written and a result returned (good),
\* or the backend raises
RunSynth(id, good) ==
  /\ run[id].pc = "running"
  /\ IF ~VoiceRegistered(run[id].voice)
     THEN /\ good
          /\ run' = [run EXCEPT ![id].pc = "raised", ![id].err = "Unknown voice_id"]
          /\ UNCHANGED files
     ELSE IF good
          THEN /\ files' = [files EXCEPT ![id] = Some(now)]
               /\ run' = [run EXCEPT ![id].pc = "synthesized", ![id].created = now]
          ELSE /\ run' = [run EXCEPT ![id].pc = "raised", ![id].err = "backend"]
               /\ UNCHANGED files
  /\ cl' = Interrupted(cl)
  /\ UNCHANGED <<jobs, jobsDoc, lock, th, now, history, stuck, dh, removed, tts, ex, ls, mm>>

\* append_history: history = load_history()
RunHistLoad(id) ==
  /\ run[id].pc = "synthesized"
  /\ run' = [run EXCEPT ![id].pc = "loaded", ![id].snap = history]
  /\ cl' = Interrupted(cl)
  /\ UNCHANGED <<jobs, jobsDoc, lock, th, now, history, files, stuck, dh, removed, tts, ex, ls, mm>>

\* a history write whose OSError escapes _run_job's except clause
RecordHistoryOutcomeUncaught(ok) == IF ok THEN "recorded" ELSE "crashed"

\* where _run_job goes after write_history returned (ok) or raised OSError
RecordHistoryOutcome(ok) == IF ok THEN "recorded" ELSE "raised"

\* append_history: history.insert(0, entry); write_history(history)
RunHistWrite(id, ok) ==
  /\ run[id].pc = "loaded"
  /\ history' = IF ok THEN Inserted(run[id].snap, HistoryEntry(id, run[id].created))
                      ELSE history
  /\ run' = [run EXCEPT ![id].pc = RecordHistoryOutcome(ok), ![id].snap = << >>,
                        ![id].wrote = ok,
                        ![id].err = IF ok THEN "" ELSE "history write"]
  /\ cl' = Interrupted(cl)
  /\ UNCHANGED <<jobs, jobsDoc, lock, th, now, files, stuck, dh, removed, tts, ex, ls, mm>>

\* job_store.update(job_id, status="succeeded", ...), inside the try
RunSucceed(id, ok) ==
  /\ run[id].pc = "recorded"
  /\ IF HasJob(jobs, id)
     THEN /\ jobs' = DictSet(jobs, id, UpdatedJob(GetJob(jobs, id)[1], Fields("succeeded", id), now))
          /\ jobsDoc' = Save(jobs', jobsDoc, ok)
          /\ run' = [run EXCEPT ![id].pc = IF ok THEN "done" ELSE "raised",
                                ![id].err = IF ok THEN "" ELSE "jobs write"]
     ELSE /\ ok
          /\ jobs' = RunUpdateUnknown(jobs, id)
          /\ jobsDoc' = jobsDoc
          /\ run' = [run EXCEPT ![id].pc = "raised", ![id].err = "KeyError"]
  /\ UNCHANGED <<lock, th, now, history, files, stuck, dh, removed, cl, tts, ex, ls, mm>>

\* except Exception as exc: job_store.update(job_id, status="failed", error=str(exc))
RunFail(id, ok) ==
  /\ run[id].pc = "raised"
  /\ IF HasJob(jobs, id)
     THEN /\ jobs' = DictSet(jobs, id,
                       UpdatedJob(GetJob(jobs, id)[1],
                                  [status |-> "failed", error |-> Some(run[id].err)], now))
          /\ jobsDoc' = Save(jobs', jobsDoc, ok)
          /\ run' = [run EXCEPT ![id].pc = IF ok THEN "done" ELSE "crashed"]
     ELSE /\ ok
          /\ jobs' = RunUpdateUnknown(jobs, id)
          /\ jobsDoc' = jobsDoc
          /\ run' = [run EXCEPT ![id].pc = "crashed"]
  /\ UNCHANGED <<lock, th, now, history, files, stuck, dh, removed, cl, tts, ex, ls, mm>>

\* a deletion that cascades to the history entry of the job
DeleteJobCascading(id, ok) ==
  /\ HasJob(jobs, id)
  /\ jobs' = DictPop(jobs, id)
  /\ jobsDoc' = Save(jobs', jobsDoc, ok)
  /\ history' = Remaining(history, id)
  /\ UNCHANGED <<lock, th, now, files, stuck, run, dh, removed, cl, tts, ex, ls, mm>>

\* delete_job: job_store.delete(job_id); 404 for an unknown id
DeleteJob(id, ok) ==
  /\ HasJob(jobs, id)
  /\ jobs' = DictPop(jobs, id)
  /\ jobsDoc' = Save(jobs', jobsDoc, ok)
  /\ UNCHANGED <<lock, th, now, history, files, stuck, run, dh, removed, cl, tts, ex, ls, mm>>

\* delete_history_entry: history = load_history()
DeleteHistoryLoad(id, audio) ==
  /\ dh.pc = "idle"
  /\ dh' = [pc |-> "loaded", id |-> id, audio |-> audio, snap |-> history]
  /\ UNCHANGED <<jobs, jobsDoc, lock, th, now, history, files, stuck, run, removed, cl, tts, ex, ls, mm>>

\* an unlink made whether or not delete_audio is set
UnlinkedAlways(h, fs, stk, id, audio) ==
  {h[i].audio_path[1] : i \in {k \in 1 .. Len(h) : h[k].job_id = id /\ h[k].audio_path # None}}

\* delete_history_entry's loop: the files it unlinks, those of the entries of the job
\* id, when delete_audio is set, the file exists and unlink does not raise OSError
Unlinked(h, fs, stk, id, audio) ==
  IF audio
  THEN {h[i].audio_path[1] :
          i \in {k \in 1 .. Len(h) : /\ h[k].job_id = id
                                     /\ h[k].audio_path # None
                                     /\ PathExists(fs, h[k].audio_path)
                                     /\ h[k].audio_path[1] \notin stk}}
  ELSE {}

\* delete_history_entry: the loop (unlink of the entry's file) and
\* write_history(remaining), which is made only when an entry was removed
DeleteHistoryWrite ==
  /\ dh.pc = "loaded"
  /\ IF HasEntry(dh.snap, dh.id)
     THEN /\ history' = Remaining(dh.snap, dh.id)
          /\ files' = [k \in DOMAIN files |->
                         IF k \in Unlinked(dh.snap, files, stuck, dh.id, dh.audio)
                         THEN None ELSE files[k]]
          /\ removed' = removed \cup {dh.id}
     ELSE UNCHANGED <<history, files, removed>>
  /\ dh' = DhIdle
  /\ UNCHANGED <<jobs, jobsDoc, lock, th, now, stuck, run, cl, tts, ex, ls, mm>>

Init == InitStore

Next ==
  \/ \E id \in JobIds, v \in Voices, ok \in BOOLEAN : Submit(id, v, ok)
  \/ \E id \in JobIds, ok \in BOOLEAN : RunStart(id, ok)
  \/ \E id \in JobIds, good \in BOOLEAN : RunSynth(id, good)
  \/ \E id \in JobIds : RunHistLoad(id)
  \/ \E id \in JobIds, ok \in BOOLEAN : RunHistWrite(id, ok)
  \/ \E id \in JobIds, ok \in BOOLEAN : RunSucceed(id, ok)
  \/ \E id \in JobIds, ok \in BOOLEAN : RunFail(id, ok)
  \/ \E id \in JobIds, ok \in BOOLEAN : DeleteJob(id, ok)
  \/ \E id \in JobIds, audio \in BOOLEAN : DeleteHistoryLoad(id, audio)
  \/ DeleteHistoryWrite
  \/ Tick

Spec == Init /\ [][Next]_vars

(* --------------- SpecRun: _run_job running to its end ------------------ *)

\* the requests and the deletions of their jobs
NextRun ==
  \/ \E id \in JobIds, v \in Voices, ok \in BOOLEAN : Submit(id, v, ok)
  \/ \E id \in JobIds, ok \in BOOLEAN : RunStart(id, ok)
  \/ \E id \in JobIds, good \in BOOLEAN : RunSynth(id, good)
  \/ \E id \in JobIds : RunHistLoad(id)
  \/ \E id \in JobIds, ok \in BOOLEAN : RunHistWrite(id, ok)
  \/ \E id \in JobIds, ok \in BOOLEAN : RunSucceed(id, ok)
  \/ \E id \in JobIds, ok \in BOOLEAN : RunFail(id, ok)
  \/ \E id \in JobIds, ok \in BOOLEAN : DeleteJob(id, ok)

\* the thread that runs _run_job goes on: the backend call returns or raises, and
\* every later statement is executed
FairRun ==
  \A id \in JobIds :
    /\ WF_vars(\E good \in BOOLEAN : RunSynth(id, good))
    /\ WF_vars(RunHistLoad(id))
    /\ WF_vars(\E ok \in BOOLEAN : RunHistWrite(id, ok))
    /\ WF_vars(\E ok \in BOOLEAN : RunSucceed(id, ok))
    /\ WF_vars(\E ok \in BOOLEAN : RunFail(id, ok))

SpecRun == Init /\ [][NextRun]_vars /\ FairRun

(* ------------- SpecAsync: synthesize with async_mode=true ------------- *)

\* synthesize, async_mode: job_store.create(job_id, "queued") and
\* background_tasks.add_task(_run_job, ...); a failed flush raises out of the handler
SubmitAsync(id, v, ok) ==
  /\ FreshId(id)
  /\ jobs' = DictSet(jobs, id, NewJob(id, now))
  /\ jobsDoc' = Save(jobs', jobsDoc, ok)
  /\ run' = [run EXCEPT ![id] = [NoRun EXCEPT !.pc = IF ok THEN "added" ELSE "crashed",
                                             !.voice = v]]
  /\ UNCHANGED <<lock, th, now, history, files, stuck, dh, removed, cl, tts, ex, ls, mm>>

\* synthesize, async_mode: job = job_store.get(job_id); assert job is not None;
\* return JobStatusResponse(**job.__dict__); the added task runs after the response
AsyncReturn(id) ==
  /\ run[id].pc = "added"
  /\ run' = [run EXCEPT ![id].pc = IF HasJob(jobs, id) THEN "queued" ELSE "crashed",
                        ![id].ret = GetJob(jobs, id),
                        ![id].err = IF HasJob(jobs, id) THEN "" ELSE "AssertionError"]
  /\ UNCHANGED <<jobs, jobsDoc, lock, th, now, history, files, stuck, dh, removed, cl, tts, ex, ls, mm>>

NextAsync ==
  \/ \E id \in JobIds, v \in Voices, ok \in BOOLEAN : SubmitAsync(id, v, ok)
  \/ \E id \in JobIds : AsyncReturn(id)
  \/ \E id \in JobIds, ok \in BOOLEAN : RunStart(id, ok)
  \/ \E id \in JobIds, good \in BOOLEAN : RunSynth(id, good)
  \/ \E id \in JobIds : RunHistLoad(id)
  \/ \E id \in JobIds, ok \in BOOLEAN : RunHistWrite(id, ok)
  \/ \E id \in JobIds, ok \in BOOLEAN : RunSucceed(id, ok)
  \/ \E id \in JobIds, ok \in BOOLEAN : RunFail(id, ok)
  \/ \E id \in JobIds, ok \in BOOLEAN : DeleteJob(id, ok)
  \/ Tick

SpecAsync == Init /\ [][NextAsync]_vars

(* --------------- SpecCleanup: cleanup_outputs (cleanup.py) ------------- *)

\* cutoff = now - timedelta(hours=max_age_hours)
Cutoff(t) == t - MaxAgeHours

\* a sweep that spares files up to an hour beyond the cutoff
ExpiredLate(mtime, t) == mtime < Cutoff(t) - 1

\* mtime < cutoff
Expired(mtime, t) == mtime < Cutoff(t)

\* a sweep that counts, and drops, the files whose unlink raised
SweepableCountingFailures(fs, st, t) ==
  {id \in DOMAIN fs : fs[id] # None /\ Expired(fs[id][1], t)}

\* the *.wav files the first loop unlinks: expired, and unlink does not raise
Sweepable(fs, st, t) ==
  {id \in DOMAIN fs : fs[id] # None /\ Expired(fs[id][1], t) /\ id \notin st}

\* dt of an entry: fromisoformat(created_at), now when that raises
EntryTime(e, t) == IF FromIsoFormat(e.created_at) = None THEN t
                   ELSE FromIsoFormat(e.created_at)[1]

\* if audio_path and not Path(audio_path).exists()
MissingFile(e, fs) == e.audio_path # None /\ ~PathExists(fs, e.audio_path)

\* an age test that also drops the entries created exactly at the cutoff
TooOldInclusive(e, t) == EntryTime(e, t) <= Cutoff(t)

\* if dt < cutoff
TooOld(e, t) == EntryTime(e, t) < Cutoff(t)

\* removed_history += 1; continue: an entry whose file is missing is not appended
OnMissingFileKept(filtered, e) == Append(filtered, e)

OnMissingFile(filtered, e) == filtered

\* removed_history += 1; continue: an entry older than the cutoff is not appended
OnTooOldKept(filtered, e) == Append(filtered, e)

OnTooOld(filtered, e) == filtered

RECURSIVE FilterLoop(_, _, _)
\* the second loop over history: the list filtered and the entries counted as removed
FilterLoop(h, fs, t) ==
  IF h = << >> THEN [filtered |-> << >>, removed |-> 0]
  ELSE LET before == FilterLoop(SubSeq(h, 1, Len(h) - 1), fs, t)
           e == h[Len(h)]
       IN  IF MissingFile(e, fs)
           THEN [filtered |-> OnMissingFile(before.filtered, e), removed |-> before.removed + 1]
           ELSE IF TooOld(e, t)
                THEN [filtered |-> OnTooOld(before.filtered, e), removed |-> before.removed + 1]
                ELSE [filtered |-> Append(before.filtered, e), removed |-> before.removed]

\* a truncation that keeps the tail, filtered[-max_history:], instead of the head
TruncatedTail(filtered) ==
  IF Len(filtered) > MaxHistory
  THEN SubSeq(filtered, Len(filtered) - MaxHistory + 1, Len(filtered)) ELSE filtered

\* filtered = filtered[:max_history] when len(filtered) > max_history
Truncated(filtered) ==
  IF Len(filtered) > MaxHistory THEN Take(filtered, MaxHistory) ELSE filtered

\* a truncation that does not count the entries it cuts off
OverflowUncounted(filtered) == 0

\* removed_history += len(filtered) - max_history, in the same case
Overflow(filtered) ==
  IF Len(filtered) > MaxHistory THEN Len(filtered) - MaxHistory ELSE 0

\* now and cutoff are read, then the first loop: unlink every expired *.wav
CleanupSweep ==
  /\ cl.pc = "idle"
  /\ LET gone == Sweepable(files, stuck, now)
     IN  /\ files' = [id \in DOMAIN files |-> IF id \in gone THEN None ELSE files[id]]
         /\ cl' = [cl EXCEPT !.pc = "swept", !.t = now, !.swept = gone, !.before = history,
                             !.removed_files = Cardinality(gone),
                             !.seq = IF cl.t = now THEN cl.seq ELSE 0,
                             !.prior = cl.removed_files + cl.removed_history]
  /\ UNCHANGED <<jobs, jobsDoc, lock, th, now, history, stuck, run, dh, removed, tts, ex, ls, mm>>

\* history = json.loads(history_path.read_text())
CleanupRead ==
  /\ cl.pc = "swept"
  /\ cl' = [cl EXCEPT !.pc = "read", !.snap = history]
  /\ UNCHANGED <<jobs, jobsDoc, lock, th, now, history, files, stuck, run, dh, removed, tts, ex, ls, mm>>

\* the second loop, the truncation, history_path.write_text(filtered), the result
CleanupWrite ==
  /\ cl.pc = "read"
  /\ LET loop == FilterLoop(cl.snap, files, cl.t)
     IN  /\ history' = Truncated(loop.filtered)
         /\ cl' = [cl EXCEPT !.pc = "idle", !.snap = << >>,
                             !.removed_history = loop.removed + Overflow(loop.filtered),
                             !.remaining_history = Len(Truncated(loop.filtered)),
                             !.seq = IF cl.seq < 2 THEN cl.seq + 1 ELSE cl.seq]
  /\ UNCHANGED <<jobs, jobsDoc, lock, th, now, files, stuck, run, dh, removed, tts, ex, ls, mm>>

\* the requests served before the cleanup, and the one running next to it
OldIds == 1 .. (MaxJobs - 1)

NewId == MaxJobs

\* the times an artifact or an entry found on disk may carry
PastTimes == (0 - MaxAgeHours - 1) .. 0

\* an entry found in history.json: its audio_path or its created_at may be missing
DiskEntries ==
  {[job_id |-> id, audio_path |-> IF named THEN Some(id) ELSE None,
    audio_url |-> Some(AudioUrl(id)), created_at |-> c] :
     id \in OldIds, named \in BOOLEAN,
     c \in {IsoFormat(t) : t \in PastTimes} \cup {<<"unparseable">>}}

\* the histories found on disk: at most one entry per job id, in any order
DiskHistories ==
  {h \in UNION {[1 .. n -> DiskEntries] : n \in 0 .. Cardinality(OldIds)} :
     \A i, k \in 1 .. Len(h) : i # k => h[i].job_id # h[k].job_id}

\* a past synthesis whose artifact is on disk left a succeeded job
DiskJob(id, mtime) ==
  UpdatedJob(JobStatus(id, "queued", mtime, mtime), Fields("succeeded", id), mtime)

RECURSIVE DiskJobs(_, _)
DiskJobs(fs, n) ==
  IF n = 0 THEN << >>
  ELSE IF fs[n] = None THEN DiskJobs(fs, n - 1)
       ELSE Append(DiskJobs(fs, n - 1), DiskJob(n, fs[n][1]))

\* the service starts over what earlier runs left on disk; one request is running
InitCleanup ==
  /\ now = 0
  /\ lock = "free"
  /\ th = [t \in Threads |-> Idle]
  /\ files \in [JobIds -> {None} \cup {Some(t) : t \in PastTimes}]
  /\ files[NewId] = None
  /\ stuck \in SUBSET OldIds
  /\ history \in DiskHistories
  /\ jobs = Append(DiskJobs(files, MaxJobs - 1), JobStatus(NewId, "running", 0, 0))
  /\ jobsDoc = SavedDocument(jobs)
  /\ run = [id \in JobIds |->
              IF id = NewId THEN [NoRun EXCEPT !.pc = "running", !.voice = "kokoro_en_us_0"]
              ELSE [NoRun EXCEPT !.pc = "done", !.voice = "kokoro_en_us_0"]]
  /\ dh = DhIdle
  /\ removed = {}
  /\ cl = ClIdle
  /\ tts = MainService
  /\ ex = ExIdle
  /\ ls = LsIdle
  /\ mm = MmIdle

NextCleanup ==
  \/ CleanupSweep
  \/ CleanupRead
  \/ CleanupWrite
  \/ RunSynth(NewId, TRUE)
  \/ RunHistLoad(NewId)
  \/ RunHistWrite(NewId, TRUE)
  \/ Tick

SpecCleanup == InitCleanup /\ [][NextCleanup]_vars

(* --------------- SpecResolver: TTSService._resolve_provider ------------- *)

\* the values of the provider setting (ORATIO_TTS_PROVIDER)
Providers == {"auto", "local", "inference", "stub"}

\* _supports_local_model(model_id): the family's runtime packages import
SupportsLocalModel(svc) == svc.supported

\* self.model_manager.resolve_model_path(model_id): ModelManager defines no such
\* method, the attribute lookup raises
ResolveModelPath(svc) == "AttributeError"

\* _has_local_models(model_id): "True", "False", or the exception raised
HasLocalModels(svc, given) ==
  IF given /\ ~SupportsLocalModel(svc) THEN "False"
  ELSE IF svc.manager
       THEN IF given
            THEN IF svc.listed /\ SupportsLocalModel(svc) THEN "True"
                 ELSE ResolveModelPath(svc)
            ELSE IF svc.any_local THEN "True" ELSE "False"
       ELSE IF ~svc.models_dir THEN "False"
            ELSE IF given THEN (IF svc.candidate THEN "True" ELSE "False")
                 ELSE (IF svc.any_local THEN "True" ELSE "False")

\* a resolver that honours an explicit "local" only when a local model is there
ResolveProviderChecked(svc, given) ==
  IF svc.provider \in {"inference", "stub"} THEN svc.provider
  ELSE IF HasLocalModels(svc, given) = "AttributeError" THEN "AttributeError"
       ELSE IF HasLocalModels(svc, given) = "True" THEN "local"
            ELSE IF svc.hf_token THEN "inference" ELSE "stub"

\* _resolve_provider(model_id): the provider, or the exception raised
ResolveProvider(svc, given) ==
  IF svc.provider \in {"local", "inference", "stub"} THEN svc.provider
  ELSE IF HasLocalModels(svc, given) = "AttributeError" THEN "AttributeError"
       ELSE IF HasLocalModels(svc, given) = "True" THEN "local"
            ELSE IF svc.hf_token THEN "inference" ELSE "stub"

\* the services that can be built and the environments they can find
Services ==
  {[MainService EXCEPT !.provider = p, !.hf_token = tok, !.manager = mgr,
                       !.models_dir = dir, !.supported = sup, !.listed = lst,
                       !.candidate = cand, !.any_local = lst \/ cand \/ other] :
     p \in Providers, tok \in BOOLEAN, mgr \in BOOLEAN, dir \in BOOLEAN,
     sup \in BOOLEAN, lst \in BOOLEAN, cand \in BOOLEAN, other \in BOOLEAN}

\* a call of _resolve_provider, with a model id (synthesize) or without
\* (current_provider)
Resolve(given) ==
  /\ tts' = [tts EXCEPT !.given = given, !.resolved = Some(ResolveProvider(tts, given))]
  /\ UNCHANGED <<jobs, jobsDoc, lock, th, now, history, files, stuck, run, dh, removed, cl, ex, ls, mm>>

InitResolver ==
  /\ jobs = << >>
  /\ jobsDoc = << >>
  /\ lock = "free"
  /\ th = [t \in Threads |-> Idle]
  /\ now = 0
  /\ history = << >>
  /\ files = [id \in JobIds |-> None]
  /\ stuck = {}
  /\ run = [id \in JobIds |-> NoRun]
  /\ dh = DhIdle
  /\ removed = {}
  /\ cl = ClIdle
  /\ tts \in Services
  /\ ex = ExIdle
  /\ ls = LsIdle
  /\ mm = MmIdle

NextResolver == \E given \in BOOLEAN : Resolve(given)

SpecResolver == InitResolver /\ [][NextResolver]_vars

(* ----------------- SpecSynth: TTSService.synthesize -------------------- *)

\* the lengths of the texts and the speeds (in tenths) of the requests
TextLens == {1, 60, 140}

Speeds == {5, 10, 20}

\* synthesize's arguments: the voice (registered or not, of a family that takes a
\* voice reference or not), a non-blank voice_ref or none, the provider argument
Requests ==
  [registered : BOOLEAN, needs_ref : BOOLEAN, voice_ref : BOOLEAN,
   provider : {None} \cup {Some(p) : p \in {"local", "inference", "stub"}},
   len : TextLens, speed : Speeds]

\* max(1.0, min(5.0, len(text) / 20.0)), in twentieths of a second
BaseDuration(len) ==
  LET capped == IF 100 < len THEN 100 ELSE len
  IN  IF 20 > capped THEN 20 ELSE capped

\* a duration that forgets the speed
StubDurationUnscaled(len, speed) == <<BaseDuration(len), 20>>

\* _generate_stub_audio: duration = base_duration / speed, as the fraction <<n, d>>
\* of seconds (speed in tenths)
StubDuration(len, speed) == <<BaseDuration(len) * 10, 20 * speed>>

\* what a call leaves: an AudioResult of some source or the exception raised, the
\* backend it invoked, whether that backend's exception reached the except branch,
\* whether the stub generator ran, whether <job id>.wav was written
Outcome(kind, source, error, backend, caught, stub, dur) ==
  [kind |-> kind, source |-> source, error |-> error, backend |-> backend,
   caught |-> caught, stub |-> stub, written |-> kind = "result", duration |-> dur]

\* an exception leaving synthesize, from the checks before the try or re-raised by
\* the except branch (caught)
Raised(error, backend, caught) ==
  Outcome("error", "", error, backend, caught, FALSE, <<0, 1>>)

\* _generate_stub_audio(...) and AudioResult(..., source="stub")
StubResult(req, backend, caught) ==
  Outcome("result", "stub", "", backend, caught, TRUE, StubDuration(req.len, req.speed))

\* resolved_provider = provider or self._resolve_provider(voice.model)
ResolvedProvider(svc, req) ==
  IF req.provider # None THEN req.provider[1] ELSE ResolveProvider(svc, TRUE)

\* a fallback that is taken whatever fallback_stub says
FallbackAlways(svc, rp) == TRUE

\* except Exception: if not self.fallback_stub and resolved_provider != "stub": raise
Fallback(svc, rp) == svc.fallback_stub \/ rp = "stub"

\* the try block: the backend of the resolved provider, and the except branch
Dispatch(svc, req, rp, good) ==
  IF good THEN Outcome("result", rp, "", rp, FALSE, FALSE, <<req.len, 20>>)
  ELSE IF Fallback(svc, rp) THEN StubResult(req, rp, TRUE)
       ELSE Raised("backend", rp, TRUE)

\* the checks made when the resolved provider is local, before the try
LocalCheck(svc) ==
  IF ~SupportsLocalModel(svc) THEN "local unsupported"
  ELSE IF HasLocalModels(svc, TRUE) = "AttributeError" THEN "AttributeError"
       ELSE IF HasLocalModels(svc, TRUE) = "False" THEN "Modele local manquant"
            ELSE ""

\* a check that only the local provider makes
VoiceRefMissingLocalOnly(req, rp) == req.needs_ref /\ ~req.voice_ref /\ rp = "local"

\* if self._supports_voice_ref(voice.model): ... raise ValueError, for the providers
\* that reach the check
VoiceRefMissing(req, rp) == req.needs_ref /\ ~req.voice_ref

\* a validation error that the fallback would replace, as if raised inside the try
ValidationErrorRetried(svc, req, error) ==
  IF svc.fallback_stub THEN StubResult(req, "none", TRUE)
  ELSE Raised(error, "none", FALSE)

\* raise ValueError(...): the two validation errors are raised outside the try
ValidationError(svc, req, error) == Raised(error, "none", FALSE)

\* TTSService.synthesize
Synthesize(svc, req, good) ==
  IF ~req.registered THEN ValidationError(svc, req, "Unknown voice_id")
  ELSE LET rp == ResolvedProvider(svc, req)
       IN  IF rp = "AttributeError" THEN Raised("AttributeError", "none", FALSE)
           ELSE IF svc.use_stub \/ rp = "stub" THEN StubResult(req, "none", FALSE)
           ELSE IF rp = "local" /\ LocalCheck(svc) # ""
                THEN Raised(LocalCheck(svc), "none", FALSE)
           ELSE IF VoiceRefMissing(req, rp) THEN ValidationError(svc, req, "voice_ref")
           ELSE Dispatch(svc, req, rp, good)

\* the services that can be built (use_stub, fallback_stub) and the environments
\* a call with a model id can tell apart
SynthServices ==
  {[MainService EXCEPT !.provider = p, !.hf_token = tok, !.manager = mgr,
                       !.supported = sup, !.listed = lst, !.candidate = cand,
                       !.any_local = lst \/ cand,
                       !.use_stub = stub, !.fallback_stub = fb, !.req = Some(req)] :
     p \in Providers, tok \in BOOLEAN, mgr \in BOOLEAN, sup \in BOOLEAN,
     lst \in BOOLEAN, cand \in BOOLEAN, stub \in BOOLEAN, fb \in BOOLEAN,
     req \in Requests}

\* the job on whose behalf synthesize is called
SynthJob == 1

\* result = tts_service.synthesize(..., job_id=job_id) inside _run_job's try: the
\* result is kept and <job id>.wav exists, or the exception goes to the except branch
SynthCall(id, good) ==
  /\ run[id].pc = "running"
  /\ tts.out = None
  /\ LET out == Synthesize(tts, tts.req[1], good)
     IN  /\ tts' = [tts EXCEPT !.out = Some(out)]
         /\ IF out.kind = "result"
            THEN /\ files' = [files EXCEPT ![id] = Some(now)]
                 /\ run' = [run EXCEPT ![id].pc = "synthesized", ![id].created = now]
            ELSE /\ run' = [run EXCEPT ![id].pc = "raised", ![id].err = out.error]
                 /\ UNCHANGED files
  /\ UNCHANGED <<jobs, jobsDoc, lock, th, now, history, stuck, dh, removed, cl, ex, ls, mm>>

\* a job created and set running, before its synthesize call
InitSynth ==
  /\ jobs = <<UpdatedJob(NewJob(SynthJob, 0), Fields("running", SynthJob), 0)>>
  /\ jobsDoc = SavedDocument(jobs)
  /\ lock = "free"
  /\ th = [t \in Threads |-> Idle]
  /\ now = 0
  /\ history = << >>
  /\ files = [id \in JobIds |-> None]
  /\ stuck = {}
  /\ run = [id \in JobIds |-> IF id = SynthJob THEN [NoRun EXCEPT !.pc = "running"]
                                                ELSE NoRun]
  /\ dh = DhIdle
  /\ removed = {}
  /\ cl = ClIdle
  /\ tts \in SynthServices
  /\ ex = ExIdle
  /\ ls = LsIdle
  /\ mm = MmIdle

NextSynth ==
  \/ \E good \in BOOLEAN : SynthCall(SynthJob, good)
  \/ RunHistLoad(SynthJob)
  \/ \E ok \in BOOLEAN : RunHistWrite(SynthJob, ok)
  \/ \E ok \in BOOLEAN : RunSucceed(SynthJob, ok)
  \/ \E ok \in BOOLEAN : RunFail(SynthJob, ok)

SpecSynth == InitSynth /\ [][NextSynth]_vars

(* -------------------- SpecExport: export_zip (main.py) ----------------- *)

\* a selection that does not look whether the file exists
SelectedUnchecked(e, fs, ids) == e.job_id \in ids /\ e.audio_path # None

\* if entry.get("job_id") in requested: ... if audio_path and Path(audio_path).exists()
Selected(e, fs, ids) ==
  e.job_id \in ids /\ e.audio_path # None /\ PathExists(fs, e.audio_path)

\* collect_audio_files: in the history's order, the audio_path of every entry whose
\* job_id is requested and whose file exists
RECURSIVE CollectAudioFiles(_, _, _)
CollectAudioFiles(h, fs, ids) ==
  IF h = << >> THEN << >>
  ELSE LET rest == CollectAudioFiles(Tail(h), fs, ids)
       IN  IF Selected(Head(h), fs, ids) THEN <<Head(h).audio_path>> \o rest
           ELSE rest

\* Path(path).name of an artifact
ArcName(path) == FileName(path[1])

\* export_zip: 404 when nothing was collected, else the archive with one member per
\* collected path, arcname = the file's name
ExportZip(ids) ==
  /\ ex.pc = "idle"
  /\ LET collected == CollectAudioFiles(history, files, ids)
     IN  ex' = [pc |-> "done", ids |-> ids,
                status |-> IF collected = << >> THEN 404 ELSE 200,
                names |-> [i \in 1 .. Len(collected) |-> ArcName(collected[i])]]
  /\ UNCHANGED <<jobs, jobsDoc, lock, th, now, history, files, stuck, run, dh, removed, cl, tts, ls, mm>>

\* an entry of history.json, with or without an audio_path
ExportEntries ==
  {[HistoryEntry(id, 0) EXCEPT !.audio_path = IF named THEN Some(id) ELSE None] :
     id \in JobIds, named \in BOOLEAN}

\* the histories an export may find: at most one entry per job id, in any order
ExportHistories ==
  {h \in UNION {[1 .. n -> ExportEntries] : n \in 0 .. MaxJobs} :
     \A i, k \in 1 .. Len(h) : i # k => h[i].job_id # h[k].job_id}

\* the service after some requests: any history and any set of artifacts
InitExport ==
  /\ jobs = << >>
  /\ jobsDoc = << >>
  /\ lock = "free"
  /\ th = [t \in Threads |-> Idle]
  /\ now = 0
  /\ history \in ExportHistories
  /\ files \in [JobIds -> {None, Some(0)}]
  /\ stuck = {}
  /\ run = [id \in JobIds |-> NoRun]
  /\ dh = DhIdle
  /\ removed = {}
  /\ cl = ClIdle
  /\ tts = MainService
  /\ ex = ExIdle
  /\ ls = LsIdle
  /\ mm = MmIdle

NextExport == \E ids \in SUBSET JobIds : ExportZip(ids)

SpecExport == InitExport /\ [][NextExport]_vars

(* ------------- SpecDelete: delete_history_entry (main.py) --------------- *)

\* how many entries of earlier installations, without an audio_path, history.json holds
MaxForeign == 2

\* the job ids of those entries
ForeignIds == (MaxJobs + 1) .. (MaxJobs + MaxForeign)

\* the entry of a job id: this service's entries name their artifact
DeleteEntry(id) ==
  IF id \in JobIds THEN HistoryEntry(id, 0)
  ELSE [HistoryEntry(id, 0) EXCEPT !.audio_path = None]

\* how many entries the histories drawn hold at most
MaxEntries == 3

\* the histories found: at most one entry per job id, in any order
DeleteHistories ==
  {[i \in 1 .. Len(ids) |-> DeleteEntry(ids[i])] :
     ids \in {q \in UNION {[1 .. n -> JobIds \cup ForeignIds] : n \in 0 .. MaxEntries} :
                \A i, k \in 1 .. Len(q) : i # k => q[i] # q[k]}}

\* the service after some requests: artifacts on disk, their succeeded jobs, any history
InitDelete ==
  /\ now = 0
  /\ lock = "free"
  /\ th = [t \in Threads |-> Idle]
  /\ files \in [JobIds -> {None, Some(0)}]
  /\ stuck \in SUBSET JobIds
  /\ history \in DeleteHistories
  /\ jobs = DiskJobs(files, MaxJobs)
  /\ jobsDoc = SavedDocument(jobs)
  /\ run = [id \in JobIds |-> [NoRun EXCEPT !.pc = "done", !.voice = "kokoro_en_us_0"]]
  /\ dh = DhIdle
  /\ removed = {}
  /\ cl = ClIdle
  /\ tts = MainService
  /\ ex = ExIdle
  /\ ls = LsIdle
  /\ mm = MmIdle

\* delete_history (delete_audio=True) and batch_delete_history, one id at a time
NextDelete ==
  \/ \E id \in JobIds \cup ForeignIds, audio \in BOOLEAN : DeleteHistoryLoad(id, audio)
  \/ DeleteHistoryWrite

SpecDelete == InitDelete /\ [][NextDelete]_vars

(* ------ SpecMaint: delete_job, delete_history_entry, cleanup_outputs ---- *)

\* the service after some requests: the artifacts on disk, recent or expired, their
\* succeeded jobs, any history
InitMaint ==
  /\ now = 0
  /\ lock = "free"
  /\ th = [t \in Threads |-> Idle]
  /\ files \in [JobIds -> {None, Some(0), Some(0 - MaxAgeHours - 1)}]
  /\ stuck \in {{}, {1}}
  /\ history \in ExportHistories
  /\ jobs = DiskJobs(files, MaxJobs)
  /\ jobsDoc = SavedDocument(jobs)
  /\ run = [id \in JobIds |-> [NoRun EXCEPT !.pc = "done", !.voice = "kokoro_en_us_0"]]
  /\ dh = DhIdle
  /\ removed = {}
  /\ cl = ClIdle
  /\ tts = MainService
  /\ ex = ExIdle
  /\ ls = LsIdle
  /\ mm = MmIdle

\* delete_job and batch_delete_jobs, delete_history and batch_delete_history (one id
\* at a time), cleanup_endpoint
NextMaint ==
  \/ \E id \in JobIds, ok \in BOOLEAN : DeleteJob(id, ok)
  \/ \E id \in JobIds, audio \in BOOLEAN : DeleteHistoryLoad(id, audio)
  \/ DeleteHistoryWrite
  \/ CleanupSweep
  \/ CleanupRead
  \/ CleanupWrite

SpecMaint == InitMaint /\ [][NextMaint]_vars

(* ----------- SpecList: JobStore.list and history (main.py) ------------- *)

\* the limits a request may carry: the query parameter is any int
Limits == {0 - 1, 0, 1, 2, 3}

\* a slice one item too long
LimitedOneMore(s, limit) == Take(s, limit + 1)

\* jobs[:limit] and load_history()[:limit]
Limited(s, limit) == Take(s, limit)

\* job_list: job_store.list(limit=limit)
JobList(limit) ==
  /\ ls.pc = "idle"
  /\ ls' = [pc |-> "jobs", limit |-> limit,
            items |-> Limited(SortedByUpdated(jobs), limit)]
  /\ UNCHANGED <<jobs, jobsDoc, lock, th, now, history, files, stuck, run, dh, removed, cl, tts, ex, mm>>

\* history: load_history()[:limit]
HistoryList(limit) ==
  /\ ls.pc = "idle"
  /\ ls' = [pc |-> "history", limit |-> limit, items |-> Limited(history, limit)]
  /\ UNCHANGED <<jobs, jobsDoc, lock, th, now, history, files, stuck, run, dh, removed, cl, tts, ex, mm>>

\* a job created at c and last updated at u
ListedJob(id, c, u) == UpdatedJob(NewJob(id, c), Fields("running", id), u)

\* the stores a list call may find: jobs in any insertion order with any
\* timestamps, one per id
ListStores ==
  {js \in UNION {[1 .. n -> {ListedJob(q[1], q[2], q[3]) :
                               q \in {r \in JobIds \X Times \X Times : r[3] >= r[2]}}] :
                   n \in 0 .. MaxJobs} :
     \A i, k \in 1 .. Len(js) : i # k => js[i].job_id # js[k].job_id}

InitList ==
  /\ jobs \in ListStores
  /\ jobsDoc = SavedDocument(jobs)
  /\ lock = "free"
  /\ th = [t \in Threads |-> Idle]
  /\ now = MaxTime
  /\ history \in ExportHistories
  /\ files = [id \in JobIds |-> None]
  /\ stuck = {}
  /\ run = [id \in JobIds |-> NoRun]
  /\ dh = DhIdle
  /\ removed = {}
  /\ cl = ClIdle
  /\ tts = MainService
  /\ ex = ExIdle
  /\ ls = LsIdle
  /\ mm = MmIdle

NextList ==
  \/ \E limit \in Limits : JobList(limit)
  \/ \E limit \in Limits : HistoryList(limit)

SpecList == InitList /\ [][NextList]_vars

(* ------------- SpecDownload: ModelManager.download (models.py) --------- *)

\* the repositories one call may have to fetch
MaxRepos == 2

\* a lock that never makes a caller wait
DlLockFreeBroken(m) == TRUE

\* with self._lock: the caller waits until no one holds the lock
DlLockFree(m) == m.lock = 0

\* models_download: "running" when the flag is set; else _download is added as a
\* background task, which calls model_manager.download(body.models) for n repositories
DlRequest(c, n) ==
  /\ mm.call[c].pc \in {"idle", "returned", "raised"}
  /\ mm' = IF mm.downloading
           THEN [mm EXCEPT !.call[c] = [DlNone EXCEPT !.ans = "running"]]
           ELSE [mm EXCEPT !.call[c] = [DlNone EXCEPT !.pc = "enter", !.left = n,
                                                     !.ans = "started"]]
  /\ UNCHANGED <<jobs, jobsDoc, lock, th, now, history, files, stuck, run, dh, removed, cl, tts, ex, ls>>

\* download: with self._lock, entered
DlAcquire(c) ==
  /\ mm.call[c].pc = "enter"
  /\ DlLockFree(mm)
  /\ mm' = [mm EXCEPT !.lock = c, !.call[c].pc = "locked"]
  /\ UNCHANGED <<jobs, jobsDoc, lock, th, now, history, files, stuck, run, dh, removed, cl, tts, ex, ls>>

\* download: if self._downloading
DlTest(c) ==
  /\ mm.call[c].pc = "locked"
  /\ mm' = [mm EXCEPT !.call[c].pc = "tested", !.call[c].saw = mm.downloading]
  /\ UNCHANGED <<jobs, jobsDoc, lock, th, now, history, files, stuck, run, dh, removed, cl, tts, ex, ls>>

\* download: return self.status() when the flag was set, else self._downloading =
\* True; either way the with block is left and the lock released
DlSet(c) ==
  /\ mm.call[c].pc = "tested"
  /\ mm' = IF mm.call[c].saw
           THEN [mm EXCEPT !.lock = 0, !.call[c].pc = "returned", !.call[c].out = "status"]
           ELSE [mm EXCEPT !.lock = 0, !.downloading = TRUE, !.call[c].pc = "loop"]
  /\ UNCHANGED <<jobs, jobsDoc, lock, th, now, history, files, stuck, run, dh, removed, cl, tts, ex, ls>>

\* download: one snapshot_download of the loop returns (ok) or raises
DlFetch(c, ok) ==
  /\ mm.call[c].pc = "loop"
  /\ mm.call[c].left > 0
  /\ mm' = IF ok
           THEN [mm EXCEPT !.call[c].left = mm.call[c].left - 1]
           ELSE [mm EXCEPT !.call[c].pc = "finally", !.call[c].out = "raised"]
  /\ UNCHANGED <<jobs, jobsDoc, lock, th, now, history, files, stuck, run, dh, removed, cl, tts, ex, ls>>

\* download: the loop is over, return self.status() leads into the finally clause
DlLoopEnd(c) ==
  /\ mm.call[c].pc = "loop"
  /\ mm.call[c].left = 0
  /\ mm' = [mm EXCEPT !.call[c].pc = "finally", !.call[c].out = "status"]
  /\ UNCHANGED <<jobs, jobsDoc, lock, th, now, history, files, stuck, run, dh, removed, cl, tts, ex, ls>>

\* finally: with self._lock, entered
DlFinallyAcquire(c) ==
  /\ mm.call[c].pc = "finally"
  /\ DlLockFree(mm)
  /\ mm' = [mm EXCEPT !.lock = c, !.call[c].pc = "resetting"]
  /\ UNCHANGED <<jobs, jobsDoc, lock, th, now, history, files, stuck, run, dh, removed, cl, tts, ex, ls>>

\* finally: self._downloading = False, the lock released; the call returns the
\* status or lets the exception of snapshot_download through
DlReset(c) ==
  /\ mm.call[c].pc = "resetting"
  /\ mm' = [mm EXCEPT !.lock = 0, !.downloading = FALSE,
                      !.call[c].pc = IF mm.call[c].out = "raised" THEN "raised"
                                     ELSE "returned"]
  /\ UNCHANGED <<jobs, jobsDoc, lock, th, now, history, files, stuck, run, dh, removed, cl, tts, ex, ls>>

InitDownload == InitStore

NextDownload ==
  \/ \E c \in Downloaders, n \in 1 .. MaxRepos : DlRequest(c, n)
  \/ \E c \in Downloaders : DlAcquire(c)
  \/ \E c \in Downloaders : DlTest(c)
  \/ \E c \in Downloaders : DlSet(c)
  \/ \E c \in Downloaders, ok \in BOOLEAN : DlFetch(c, ok)
  \/ \E c \in Downloaders : DlLoopEnd(c)
  \/ \E c \in Downloaders : DlFinallyAcquire(c)
  \/ \E c \in Downloaders : DlReset(c)

SpecDownload == InitDownload /\ [][NextDownload]_vars

(* ------------------------------ claims --------------------------------- *)

\* the job of an id known to be in the store
JobOf(js, id) == js[JobIndex(js, id)]

\* C1: once a job's status is succeeded or failed, no later update (those of
\* _run_job's success and error paths included) changes it to another value.
C1_TerminalStatusIsFinal ==
  [][\A id \in JobIds :
       (/\ HasJob(jobs, id)
        /\ JobOf(jobs, id).status \in Terminal
        /\ HasJob(jobs', id))
       => JobOf(jobs', id).status = JobOf(jobs, id).status]_vars

\* C2 as stated: a request with an unregistered voice id leaves no entry created for
\* it in the job store, the jobs document or the history.
C2_UnknownVoiceLeavesNoJob ==
  \A id \in JobIds :
    (run[id].pc # "none" /\ run[id].voice = "no_such_voice")
    => /\ ~HasJob(jobs, id)
       /\ \A i \in 1 .. Len(jobsDoc) : jobsDoc[i].job_id # id
       /\ ~HasEntry(history, id)

\* C2 as amended: the synthesis of a request with an unregistered voice id raises the
\* validation error before anything is written: no history entry and no artifact is
\* ever created for it; the job created at submission stays in the store, is never
\* succeeded, and the run marks it failed with the error's message.
C2_UnknownVoiceFailsWithoutHistory ==
  \A id \in JobIds :
    run[id].voice = "no_such_voice"
    => /\ ~HasEntry(history, id)
       /\ files[id] = None
       /\ run[id].pc \notin {"synthesized", "loaded", "recorded"}
       /\ ~run[id].wrote
       /\ run[id].pc \in {"raised", "done"} => run[id].err = "Unknown voice_id"
       /\ HasJob(jobs, id) => JobOf(jobs, id).status # "succeeded"
       /\ (run[id].pc = "done" /\ HasJob(jobs, id))
          => /\ JobOf(jobs, id).status = "failed"
             /\ JobOf(jobs, id).error = Some("Unknown voice_id")

\* C2 witness: such a request has run to its end and its job is failed with the message.
C2_Witness ==
  \E id \in JobIds :
    /\ run[id].voice = "no_such_voice"
    /\ run[id].pc = "done"
    /\ HasJob(jobs, id)
    /\ JobOf(jobs, id).status = "failed"
    /\ JobOf(jobs, id).error = Some("Unknown voice_id")

\* C3: a job is succeeded (in the store or in the jobs document) only if the history
\* entry of the same job id was written before and the job-store write of the success
\* did not fail; and when the history write or the job-store write of the success
\* failed, the job the run leaves behind is failed.
C3_SuccessOnlyWhenBothWritten ==
  \A id \in JobIds :
    /\ (HasJob(jobs, id) /\ JobOf(jobs, id).status = "succeeded")
       => (run[id].wrote /\ run[id].err # "jobs write")
    /\ \A i \in 1 .. Len(jobsDoc) :
         (jobsDoc[i].job_id = id /\ jobsDoc[i].status = "succeeded")
         => (run[id].wrote /\ run[id].err # "jobs write")
    /\ (/\ run[id].pc \in {"done", "crashed"}
        /\ run[id].err \in {"history write", "jobs write"}
        /\ HasJob(jobs, id))
       => JobOf(jobs, id).status = "failed"

\* C4: history mutations are exclusive from read to rewrite, so once no mutation is
\* under way the history holds the entry of every append (unless a removal took it
\* out) and no entry a removal took out.
C4_HistoryReflectsEveryMutation ==
  (dh.pc = "idle" /\ \A k \in JobIds : run[k].pc # "loaded")
  => \A id \in JobIds :
       /\ (run[id].wrote /\ id \notin removed) => HasEntry(history, id)
       /\ id \in removed => ~HasEntry(history, id)

\* C5: whatever the interleaving of a cleanup with the append of a fresh entry whose
\* audio file exists, the entry is in the history once both have finished (it is the
\* head entry, so within the max_history cap).
C5_AppendSurvivesCleanup ==
  (/\ cl.pc = "idle"
   /\ run[NewId].wrote
   /\ files[NewId] # None
   /\ run[NewId].created >= now - MaxAgeHours)
  => HasEntry(history, NewId)

\* C6: each update is an atomic read-modify-write: the job it stores is the job in
\* the store at that moment with the call's fields (and updated_at) replaced, so of
\* two concurrent updates of one id neither is computed from a stale copy; and at
\* most one caller is between its read and its write.
C6_UpdateIsAtomic ==
  /\ [](Cardinality({t \in Threads : th[t].pc = "update_write"}) <= 1)
  /\ [][\A t \in Threads :
          (th[t].pc = "update_write" /\ th'[t].pc = "idle")
          => /\ HasJob(jobs, th[t].id)
             /\ HasJob(jobs', th[t].id)
             /\ JobOf(jobs', th[t].id)
                  = UpdatedJob(JobOf(jobs, th[t].id), Fields(th[t].kind, th[t].id), now)]_vars

\* C6 witness: two updates of one id setting different fields are under way at once:
\* one holds the lock between its read and its write, the other waits for it.
C6_Witness ==
  \E t, u \in Threads :
    /\ t # u
    /\ th[t].pc = "update_write" /\ th[t].kind = "running"
    /\ th[u].pc = "update" /\ th[u].kind = "voice"
    /\ th[t].id = th[u].id
    /\ lock = t

\* C7: after every completed create, update or delete the store holds at most
\* max_items jobs, through get and list as in the persisted document, and the jobs
\* the document lacks are no more recent than those it holds.
C7_StoreWithinCap ==
  (\A t \in Threads : th[t].pc # "update_write")
  => /\ Len(jobsDoc) <= MaxItems
     /\ Cardinality({id \in JobIds : GetJob(jobs, id) # None}) <= MaxItems
     /\ \A limit \in 0 .. MaxJobs : Len(ListJobs(jobs, limit)) <= MaxItems
     /\ \A i \in 1 .. Len(jobs), k \in 1 .. Len(jobsDoc) :
          (\A d \in 1 .. Len(jobsDoc) : jobsDoc[d].job_id # jobs[i].job_id)
          => IsoFormat(jobs[i].updated_at)[2] <= jobsDoc[k].updated_at[2]

\* the entries of h naming the audio file of id
PointsTo(h, id) == {i \in 1 .. Len(h) : h[i].audio_path = Some(id)}

\* C8 as stated: when a cleanup completes, neither the history nor the job store
\* holds a record (an entry, or a succeeded job with an audio_url) of an artifact
\* the sweep deleted.
C8_CleanupPrunesBothStores ==
  [][(cl.pc = "read" /\ cl'.pc = "idle")
     => \A id \in cl.swept :
          /\ PointsTo(history', id) = {}
          /\ ~(/\ HasJob(jobs', id)
               /\ JobOf(jobs', id).status = "succeeded"
               /\ JobOf(jobs', id).audio_url = Some(AudioUrl(id)))]_vars

\* C8 as amended: when a cleanup completes, the history it wrote holds no entry of
\* an artifact the sweep deleted; the job store is not pruned: no step of the cleanup
\* changes the store or the jobs document.
C8_CleanupPrunesHistoryOnly ==
  [][/\ (cl.pc = "read" /\ cl'.pc = "idle")
        => \A id \in cl.swept : PointsTo(history', id) = {}
     /\ cl'.pc # cl.pc => (jobs' = jobs /\ jobsDoc' = jobsDoc)]_vars

\* C8 witness: a cleanup has completed that deleted an artifact and pruned its
\* history entry, and the succeeded job of that artifact is still in the store.
C8_Witness ==
  /\ cl.pc = "idle"
  /\ \E id \in cl.swept :
       /\ PointsTo(cl.before, id) # {}
       /\ PointsTo(history, id) = {}
       /\ files[id] = None
       /\ HasJob(jobs, id)
       /\ JobOf(jobs, id).status = "succeeded"
       /\ JobOf(jobs, id).audio_url = Some(AudioUrl(id))

\* C9: the second of two cleanups in immediate succession (same clock value, no
\* other operation in between) returns removed_files = 0 and removed_history = 0 and
\* leaves the history as the first call left it.
C9_CleanupIdempotent ==
  (cl.pc = "idle" /\ cl.seq = 2)
  => /\ cl.removed_files = 0
     /\ cl.removed_history = 0
     /\ history = cl.before
     /\ cl.remaining_history = Len(history)

\* C9 witness: two cleanups ran in immediate succession, the first removed something.
C9_Witness ==
  /\ cl.pc = "idle"
  /\ cl.seq = 2
  /\ cl.prior > 0
  /\ history # << >>

\* C10 as stated: a cleanup deletes every audio file whose modification time is older
\* than the cutoff and removes every history entry pointing to it, whatever the
\* entry's own created_at.
C10_ExpiredFilesAllDeleted ==
  [][/\ (cl.pc = "idle" /\ cl'.pc = "swept")
        => \A id \in JobIds :
             (files[id] # None /\ files[id][1] < now - MaxAgeHours)
             => (files'[id] = None /\ id \in cl'.swept)
     /\ (cl.pc = "read" /\ cl'.pc = "idle")
        => \A id \in cl.swept : files'[id] = None /\ PointsTo(history', id) = {}]_vars

\* C10 as amended: a cleanup deletes every audio file whose modification time is
\* older than the cutoff unless its unlink raises OSError (the file then stays, and
\* so do the entries pointing to it), and removes every history entry pointing to a
\* file it deleted, whatever the entry's own created_at.
C10_ExpiredFilesDeletedUnlessUnlinkFails ==
  [][/\ (cl.pc = "idle" /\ cl'.pc = "swept")
        => \A id \in JobIds :
             (files[id] # None /\ files[id][1] < now - MaxAgeHours)
             => IF id \in stuck
                THEN files'[id] = files[id] /\ id \notin cl'.swept
                ELSE files'[id] = None /\ id \in cl'.swept
     /\ (cl.pc = "read" /\ cl'.pc = "idle")
        => \A id \in cl.swept : files'[id] = None /\ PointsTo(history', id) = {}]_vars

\* C10 witness: a cleanup has deleted an expired file and pruned an entry pointing to
\* it whose created_at is newer than the cutoff.
C10_Witness ==
  /\ cl.pc = "idle"
  /\ \E id \in cl.swept :
       /\ files[id] = None
       /\ PointsTo(history, id) = {}
       /\ \E i \in PointsTo(cl.before, id) :
            /\ FromIsoFormat(cl.before[i].created_at) # None
            /\ FromIsoFormat(cl.before[i].created_at)[1] > cl.t - MaxAgeHours

\* the entries of h that pass the file filter and the age filter of a cleanup at t
Survivors(h, fs, t) ==
  LET Passes(e) ==
        /\ ~(e.audio_path # None /\ fs[e.audio_path[1]] = None)
        /\ ~((IF Len(e.created_at) = 2 THEN e.created_at[2] ELSE t) < t - MaxAgeHours)
  IN  SelectSeq(h, Passes)

\* C11: when more than max_history entries survive the file and age filters, the
\* cleanup writes exactly the first max_history of them, in their order, and its
\* removed_history is the number filtered out plus the overflow; remaining_history
\* is max_history.
C11_OverflowTruncatedToHead ==
  [][(cl.pc = "read" /\ cl'.pc = "idle")
     => LET surv == Survivors(cl.snap, files, cl.t)
        IN  Len(surv) > MaxHistory
            => /\ history' = SubSeq(surv, 1, MaxHistory)
               /\ cl'.removed_history
                    = (Len(cl.snap) - Len(surv)) + (Len(surv) - MaxHistory)
               /\ cl'.remaining_history = MaxHistory]_vars

\* C11 witness: a cleanup has completed that read the fresh entry at the head of more
\* surviving entries than max_history: the head is kept, a surviving older entry is
\* cut off and counted.
C11_Witness ==
  /\ cl.pc = "idle"
  /\ Len(history) = MaxHistory
  /\ history[1].job_id = NewId
  /\ cl.removed_history >= 1
  /\ cl.remaining_history = MaxHistory
  /\ \E i \in 1 .. Len(cl.before) :
       /\ Survivors(<<cl.before[i]>>, files, cl.t) # << >>
       /\ \A k \in 1 .. Len(history) : history[k] # cl.before[i]

\* C12: the persisted history is a bounded sequence: after any sequence of appends,
\* removals and cleanups it holds at most max_history entries.
C12_HistoryWithinCap == Len(history) <= MaxHistory

\* C13: the job get returns right after a create is the job create built: status
\* queued and created_at equal to updated_at; and until a create, update or delete
\* of that id completes, get keeps returning it.
C13_GetAfterCreate ==
  [][/\ \A t \in Threads :
          (th[t].pc = "create" /\ th'[t].pc = "idle")
          => /\ GetJob(jobs', th[t].id) # None
             /\ GetJob(jobs', th[t].id)[1].job_id = th[t].id
             /\ GetJob(jobs', th[t].id)[1].status = "queued"
             /\ GetJob(jobs', th[t].id)[1].created_at = GetJob(jobs', th[t].id)[1].updated_at
     /\ \A id \in JobIds :
          (\A t \in Threads :
             ~(/\ th[t].id = id
               /\ th[t].pc \in {"create", "update_write", "delete"}
               /\ th'[t].pc = "idle"))
          => GetJob(jobs', id) = GetJob(jobs, id)]_vars

\* C13 witness: a create made after the clock moved has returned, and get returns
\* its queued job next to a job of another id that an update has changed.
C13_Witness ==
  \E id, other \in JobIds :
    /\ id # other
    /\ \E t \in Threads : th[t].pc = "idle" /\ th[t].ret = "job"
    /\ GetJob(jobs, id) # None
    /\ GetJob(jobs, id)[1].status = "queued"
    /\ GetJob(jobs, id)[1].created_at = MaxTime
    /\ GetJob(jobs, id)[1].updated_at = MaxTime
    /\ GetJob(jobs, other) # None
    /\ GetJob(jobs, other)[1].status = "running"

\* C14: every job in the store has updated_at >= created_at, and every update of a
\* job leaves its job_id and created_at as they were and sets updated_at to a value
\* not smaller than the one it had.
C14_TimestampsOrdered ==
  /\ [](\A i \in 1 .. Len(jobs) : jobs[i].updated_at >= jobs[i].created_at)
  /\ [][\A t \in Threads :
          (th[t].pc = "update_write" /\ th'[t].pc = "idle")
          => /\ HasJob(jobs, th[t].id)
             /\ HasJob(jobs', th[t].id)
             /\ JobOf(jobs', th[t].id).job_id = JobOf(jobs, th[t].id).job_id
             /\ JobOf(jobs', th[t].id).created_at = JobOf(jobs, th[t].id).created_at
             /\ JobOf(jobs', th[t].id).updated_at >= JobOf(jobs, th[t].id).updated_at]_vars

\* C14 witness: a job updated after the clock moved: its updated_at is later than its
\* created_at.
C14_Witness ==
  \E i \in 1 .. Len(jobs) :
    /\ jobs[i].status = "running"
    /\ jobs[i].created_at = 0
    /\ jobs[i].updated_at = MaxTime
    /\ jobs[i].updated_at > jobs[i].created_at

\* the job a completed create or update of caller t returns
Returned(t) ==
  IF th[t].pc = "create" THEN th[t].data[1]
  ELSE UpdatedJob(th[t].data[1], Fields(th[t].kind, th[t].id), now)

\* C15: when a create or update returns, a fresh store loaded from the
\* jobs document holds the job written, with exactly the returned field values; when
\* delete returns true, it holds no job of that id.
C15_WriteThrough ==
  [][\A t \in Threads :
       /\ (th[t].pc \in {"create", "update_write"} /\ th'[t].pc = "idle")
          => GetJob(LoadJobs(jobsDoc'), th[t].id) = Some(Returned(t))
       /\ (th[t].pc = "delete" /\ th'[t].pc = "idle" /\ th'[t].ret = "True")
          => GetJob(LoadJobs(jobsDoc'), th[t].id) = None]_vars

\* C16: an update of an id that is not in the store fails with KeyError and leaves
\* the store and the jobs document as they were: it never creates the job; and
\* KeyError is raised in no other case.
C16_UpdateUnknownIsNotFound ==
  [][\A t \in Threads :
       (th[t].pc = "update" /\ th'[t] # th[t])
       => IF HasJob(jobs, th[t].id)
          THEN th'[t].pc = "update_write" /\ th'[t].ret # "KeyError"
          ELSE /\ th'[t].pc = "idle"
               /\ th'[t].ret = "KeyError"
               /\ jobs' = jobs
               /\ jobsDoc' = jobsDoc
               /\ ~HasJob(jobs', th[t].id)
               /\ \A i \in 1 .. Len(jobsDoc') : jobsDoc'[i].job_id # th[t].id
               /\ lock' = lock]_vars

\* C16 witness: an update has raised KeyError in a store that holds the job of one
\* id and no job of another.
C16_Witness ==
  \E t \in Threads, other \in JobIds :
    /\ th[t].pc = "idle"
    /\ th[t].ret = "KeyError"
    /\ HasJob(jobs, other)
    /\ \E id \in JobIds : ~HasJob(jobs, id)

\* C17: the status of a job handled by submission and _run_job changes only along
\* queued -> running -> succeeded or queued -> running -> failed: a job enters the
\* store queued, and every change of its status is one of these three steps.
C17_StatusFollowsStateMachine ==
  [][\A id \in JobIds :
       /\ (~HasJob(jobs, id) /\ HasJob(jobs', id)) => JobOf(jobs', id).status = "queued"
       /\ (/\ HasJob(jobs, id)
           /\ HasJob(jobs', id)
           /\ JobOf(jobs', id).status # JobOf(jobs, id).status)
          => <<JobOf(jobs, id).status, JobOf(jobs', id).status>>
               \in {<<"queued", "running">>, <<"running", "succeeded">>,
                    <<"running", "failed">>}]_vars

\* C18: in every state a succeeded job carries audio_url, duration_seconds, model,
\* voice_id and source and no error, and a failed job carries an error and none of
\* those five.
C18_FieldsMatchStatus ==
  \A i \in 1 .. Len(jobs) :
    /\ jobs[i].status = "succeeded"
       => /\ \A f \in {"audio_url", "duration_seconds", "model", "voice_id", "source"} :
               jobs[i][f] # None
          /\ jobs[i].error = None
    /\ jobs[i].status = "failed"
       => /\ \A f \in {"audio_url", "duration_seconds", "model", "voice_id", "source"} :
               jobs[i][f] = None
          /\ jobs[i].error # None

\* C19: when the configured provider is local, inference or stub, the resolver
\* answers exactly that provider, whatever the model id, the local artifacts, the
\* runtime support of the family and the credential.
C19_ExplicitProviderReturned ==
  (tts.resolved # None /\ tts.provider \in {"local", "inference", "stub"})
  => tts.resolved = Some(tts.provider)

\* C19 witness: a service set to local has resolved local for a model id with no local
\* artifact, no runtime support and no credential.
C19_Witness ==
  /\ tts.provider = "local"
  /\ tts.given
  /\ ~tts.supported /\ ~tts.listed /\ ~tts.candidate /\ ~tts.hf_token
  /\ tts.resolved = Some("local")

\* the local artifact of the model id is present: listed as existing by the model
\* manager, or found under models_dir when there is no manager
ArtifactPresent(svc) == IF svc.manager THEN svc.listed ELSE svc.models_dir /\ svc.candidate

\* C20: in auto mode the resolver answers, for every combination of inputs and
\* without failing: local if the artifact of the model id is present and its family
\* supported, otherwise inference if a credential is configured, otherwise stub.
C20_AutoResolverTotal ==
  (tts.resolved # None /\ tts.provider = "auto" /\ tts.given)
  => tts.resolved =
       Some(IF ArtifactPresent(tts) /\ tts.supported THEN "local"
            ELSE IF tts.hf_token THEN "inference" ELSE "stub")

\* C21: when the backend of a non-stub provider raises inside synthesize, the call
\* returns a result of source "stub" if fallback_stub is set; if it is not set the
\* exception leaves synthesize and _run_job records the job as failed with the
\* exception's message
C21_FallbackPolicy ==
  (tts.out # None /\ tts.out[1].caught) =>
    /\ tts.out[1].backend \in {"local", "inference"}
    /\ IF tts.fallback_stub
       THEN tts.out[1].kind = "result" /\ tts.out[1].source = "stub"
       ELSE /\ tts.out[1].kind = "error"
            /\ run[SynthJob].pc \in {"raised", "done", "crashed"}
            /\ run[SynthJob].err = tts.out[1].error
            /\ run[SynthJob].pc \in {"done", "crashed"} =>
                 /\ HasJob(jobs, SynthJob)
                 /\ JobOf(jobs, SynthJob).status = "failed"
                 /\ JobOf(jobs, SynthJob).error = Some(tts.out[1].error)

C21_Witness ==
  /\ tts.out # None /\ tts.out[1].caught /\ ~tts.fallback_stub
  /\ run[SynthJob].pc = "done"
  /\ HasJob(jobs, SynthJob) /\ JobOf(jobs, SynthJob).status = "failed"

\* C22: when the resolved provider is local and its backend is unavailable (the
\* family's runtime packages do not import, or the local model artifact is not
\* found), synthesize returns a result of source "stub" if fallback_stub is set and
\* raises only if it is not set
C22_UnavailableBackendFallsBack ==
  (/\ tts.out # None
   /\ tts.req[1].registered /\ ~tts.use_stub
   /\ ResolvedProvider(tts, tts.req[1]) = "local"
   /\ LocalCheck(tts) # "") =>
    IF tts.fallback_stub
    THEN tts.out[1].kind = "result" /\ tts.out[1].source = "stub"
    ELSE tts.out[1].kind = "error"

\* the call is one for a registered voice of a family that takes a voice
\* reference, made without one
NoVoiceRefCall ==
  /\ tts.out # None
  /\ tts.req[1].registered /\ tts.req[1].needs_ref /\ ~tts.req[1].voice_ref

\* the stub branch is taken: the provider is resolved, and use_stub is set or the
\* resolved provider is stub
StubInUse ==
  /\ ResolvedProvider(tts, tts.req[1]) # "AttributeError"
  /\ tts.use_stub \/ ResolvedProvider(tts, tts.req[1]) = "stub"

\* C23 (as stated): a call without the voice reference its voice requires fails
\* with the validation error before any backend or the stub generator is invoked and
\* before any artifact is written, whatever provider was resolved
C23_VoiceRefRequiredAlways ==
  NoVoiceRefCall =>
    /\ tts.out[1].kind = "error" /\ tts.out[1].error = "voice_ref"
    /\ tts.out[1].backend = "none" /\ ~tts.out[1].stub /\ ~tts.out[1].written

\* C23 (amended): unless the stub branch is taken, a call without the voice
\* reference its voice requires raises before any backend or the stub generator is
\* invoked and before any artifact is written, and what it raises is the validation
\* error when the provider is inference or an available local backend; when the
\* stub branch is taken the call returns a stub result without any check
C23_VoiceRefRequiredUnlessStub ==
  NoVoiceRefCall =>
    IF StubInUse
    THEN tts.out[1].kind = "result" /\ tts.out[1].source = "stub"
    ELSE /\ tts.out[1].kind = "error"
         /\ tts.out[1].backend = "none" /\ ~tts.out[1].stub /\ ~tts.out[1].written
         /\ files[SynthJob] = None
         /\ (\/ ResolvedProvider(tts, tts.req[1]) = "inference"
             \/ ResolvedProvider(tts, tts.req[1]) = "local" /\ LocalCheck(tts) = "")
              => tts.out[1].error = "voice_ref"

C23_Witness ==
  /\ NoVoiceRefCall /\ ~StubInUse /\ tts.fallback_stub
  /\ ResolvedProvider(tts, tts.req[1]) = "inference"
  /\ tts.out[1].error = "voice_ref"
  /\ run[SynthJob].pc = "raised"

\* the call meets one of synthesize's two validation checks: the voice is not
\* registered, or the voice-reference check is reached (the provider is resolved,
\* the stub branch is not taken, a local backend is available) and no reference
\* was given
ValidationFails ==
  /\ tts.out # None
  /\ \/ ~tts.req[1].registered
     \/ /\ NoVoiceRefCall /\ ~StubInUse
        /\ \/ ResolvedProvider(tts, tts.req[1]) = "inference"
           \/ ResolvedProvider(tts, tts.req[1]) = "local" /\ LocalCheck(tts) = ""

ClampedTwentieths(len) == IF len < 20 THEN 20 ELSE IF len > 100 THEN 100 ELSE len

\* C25: when the resolved provider is stub, synthesize returns for every registered
\* voice, text and speed a result of source "stub", whatever models, packages and
\* token the environment has, and its duration_seconds is
\* clamp(len(text) / 20, 1, 5) / speed
C25_StubAlwaysSucceeds ==
  (/\ tts.out # None
   /\ tts.req[1].registered
   /\ ResolvedProvider(tts, tts.req[1]) = "stub") =>
    /\ tts.out[1].kind = "result" /\ tts.out[1].source = "stub"
    /\ tts.out[1].backend = "none" /\ tts.out[1].written
    /\ files[SynthJob] # None
    /\ tts.out[1].duration[1] * 20 * tts.req[1].speed
         = tts.out[1].duration[2] * 10 * ClampedTwentieths(tts.req[1].len)

C25_Witness ==
  /\ tts.out # None /\ tts.req[1].registered
  /\ tts.req[1].provider = Some("stub") /\ tts.provider = "local"
  /\ tts.req[1].needs_ref /\ ~tts.req[1].voice_ref
  /\ tts.req[1].len = 140 /\ tts.req[1].speed = 5
  /\ tts.out[1].source = "stub"
  /\ tts.out[1].duration[1] * 1 = tts.out[1].duration[2] * 10

\* the service is in stub mode as main.py builds it: ORATIO_TTS_STUB=1 or
\* ORATIO_TTS_PROVIDER=stub
StubMode == tts.use_stub \/ tts.provider = "stub"

\* C26: a synchronous request in stub mode for a registered voice (no provider
\* argument, as _run_job calls synthesize), whose store writes go through, returns
\* a succeeded job whose audio_url is the base audio URL followed by
\* "/<job id>.wav", and the file of that name exists in the audio directory
C26_SyncStubRequestSucceeds ==
  (/\ tts.out # None
   /\ StubMode /\ tts.req[1].registered /\ tts.req[1].provider = None
   /\ run[SynthJob].pc = "done"
   /\ run[SynthJob].err \notin {"history write", "jobs write"}) =>
    /\ HasJob(jobs, SynthJob)
    /\ JobOf(jobs, SynthJob).status = "succeeded"
    /\ JobOf(jobs, SynthJob).audio_url
         = Some([base |-> "/audio", name |-> [stem |-> SynthJob, ext |-> "wav"]])
    /\ files[SynthJob] # None

\* C27: with async_mode the handler creates the job queued and returns it still
\* queued; the job's status leaves queued, and its artifact is written, only after
\* the handler has returned
C27_AsyncRunsAfterReturn ==
  \A id \in JobIds :
    /\ run[id].ret # None =>
         /\ run[id].ret[1].job_id = id
         /\ run[id].ret[1].status = "queued"
         /\ run[id].ret[1].created_at = run[id].ret[1].updated_at
    /\ run[id].pc = "added" =>
         (HasJob(jobs, id) => JobOf(jobs, id).status = "queued")
    /\ (\/ HasJob(jobs, id) /\ JobOf(jobs, id).status # "queued"
        \/ files[id] # None
        \/ run[id].pc \in {"running", "synthesized", "loaded", "recorded", "raised", "done"})
         => run[id].ret # None

C27_Witness ==
  \E id \in JobIds :
    /\ run[id].ret # None /\ run[id].ret[1].status = "queued"
    /\ run[id].pc = "done"
    /\ HasJob(jobs, id) /\ JobOf(jobs, id).status = "succeeded"

\* the requested ids that resolve through the history to a file that exists
ResolvedIds(h, fs, ids) ==
  {id \in ids : \E i \in 1 .. Len(h) :
     h[i].job_id = id /\ h[i].audio_path # None /\ fs[h[i].audio_path[1]] # None}

\* C28: export_zip answers not-found when no requested id resolves through the
\* history to an existing audio file; otherwise the archive holds exactly one member
\* per resolved existing file, named by the file's name, and the ids without an
\* existing file are left out
C28_ExportHoldsResolvedFiles ==
  ex.pc = "done" =>
    LET resolved == ResolvedIds(history, files, ex.ids)
    IN  IF resolved = {}
        THEN ex.status = 404 /\ ex.names = << >>
        ELSE /\ ex.status = 200
             /\ Len(ex.names) = Cardinality(resolved)
             /\ {ex.names[i] : i \in 1 .. Len(ex.names)}
                  = {[stem |-> id, ext |-> "wav"] : id \in resolved}

C28_Witness ==
  /\ ex.pc = "done" /\ ex.status = 200
  /\ ex.ids = JobIds
  /\ Len(history) = MaxJobs
  /\ Len(ex.names) = 1

\* the positions of the entries of h that carry another job id than id
OtherPositions(h, id) == {i \in 1 .. Len(h) : h[i].job_id # id}

\* C29: delete_history_entry(id, delete_audio) returns True exactly when the history
\* it loaded held an entry for id; it then writes a history with no entry for id and
\* the other entries in their order, and unlinks the entry's file only if
\* delete_audio is set (a file already absent, or one whose unlink raises, is
\* tolerated); when no entry matches, nothing is written and it returns False
C29_RemoveByJobId ==
  [][(dh.pc = "loaded" /\ dh'.pc = "idle") =>
       LET id == dh.id
           others == OtherPositions(dh.snap, id)
       IN  IF \E i \in 1 .. Len(dh.snap) : dh.snap[i].job_id = id
           THEN /\ id \in removed'
                /\ \A i \in 1 .. Len(history') : history'[i].job_id # id
                /\ Len(history') = Cardinality(others)
                /\ \A i \in others :
                     history'[Cardinality({k \in others : k <= i})] = dh.snap[i]
                /\ \A k \in JobIds :
                     files'[k] # files[k] => dh.audio /\ k = id /\ files'[k] = None
                /\ (dh.audio /\ id \in JobIds /\ id \notin stuck) => files'[id] = None
           ELSE /\ removed' = removed
                /\ history' = history
                /\ files' = files]_vars

C29_Witness ==
  /\ dh.pc = "idle"
  /\ Len(history) = 2
  /\ removed = {1}
  /\ files[1] = None /\ files[2] # None
  /\ history[1].job_id = MaxJobs + 2 /\ history[2].job_id = 2

\* C30: the job store and the history are independent: a step that deletes a job
\* leaves the history and the artifacts as they are, the steps of
\* delete_history_entry and of cleanup_outputs leave the job store as it is, and an
\* entry whose file exists is listed and exported whether or not its job is there
C30_StoresIndependent ==
  /\ [](\A i \in 1 .. Len(history) :
          (history[i].audio_path # None /\ files[history[i].audio_path[1]] # None)
            => CollectAudioFiles(history, files, {history[i].job_id})
                 = <<history[i].audio_path>>)
  /\ [][/\ jobs' # jobs => (history' = history /\ files' = files)
        /\ (dh' # dh \/ cl' # cl \/ history' # history \/ files' # files)
             => (jobs' = jobs /\ jobsDoc' = jobsDoc)]_vars

C30_Witness ==
  \E id \in JobIds :
    /\ ~HasJob(jobs, id)
    /\ HasEntry(history, id)
    /\ files[id] # None
    /\ CollectAudioFiles(history, files, {id}) = <<Some(id)>>
    /\ cl.pc = "idle" /\ cl.seq > 0

C32_FlushFailureIsRaised ==
  [][\A t \in Threads :
       (/\ th[t].pc \in {"create", "update_write", "delete"}
        /\ th'[t].pc = "idle"
        /\ th[t].pc = "delete" => HasJob(jobs, th[t].id)
        /\ jobsDoc' # SavedDocument(jobs'))
         => /\ th'[t].ret = "OSError"
            /\ jobsDoc' = jobsDoc
            /\ IF th[t].pc = "delete" THEN ~HasJob(jobs', th[t].id)
               ELSE HasJob(jobs', th[t].id)
            /\ th[t].pc = "create" => JobOf(jobs', th[t].id) = th[t].data[1]
            /\ th[t].pc = "update_write" =>
                 JobOf(jobs', th[t].id)
                   = UpdatedJob(th[t].data[1], Fields(th[t].kind, th[t].id), now)]_vars

C32_Witness ==
  \E t \in Threads :
    /\ th[t].pc = "idle" /\ th[t].ret = "OSError"
    /\ Len(jobs) = 1 /\ jobs[1].status = "failed"
    /\ Len(jobsDoc) = 1 /\ jobsDoc[1].status = "queued"

\* C33: an unlink that raises OSError during the sweep is swallowed: the sweep
\* goes on and the cleanup returns its record; the file stays and is not counted in
\* removed_files, and an entry pointing to it is not dropped as one whose file is
\* missing (only its own age or the max_history cut can remove it)
C33_UnlinkFailureSwallowed ==
  [][/\ (cl.pc = "idle" /\ cl'.pc = "swept")
        => /\ \A id \in stuck : files'[id] = files[id] /\ id \notin cl'.swept
           /\ cl'.removed_files
                = Cardinality({id \in JobIds : files[id] # None /\ files'[id] = None})
     /\ (cl.pc = "read" /\ cl'.pc = "idle")
        => /\ cl'.remaining_history = Len(history')
           /\ \A i \in 1 .. Len(cl.snap) :
                (/\ cl.snap[i].audio_path # None
                 /\ cl.snap[i].audio_path[1] \in stuck
                 /\ files[cl.snap[i].audio_path[1]] # None
                 /\ Survivors(<<cl.snap[i]>>, [id \in JobIds |-> Some(0)], cl.t) # << >>
                 /\ Len(Survivors(cl.snap, files, cl.t)) <= MaxHistory)
                  => \E k \in 1 .. Len(history') : history'[k] = cl.snap[i]]_vars

C33_Witness ==
  /\ cl.pc = "idle" /\ cl.seq > 0
  /\ cl.removed_files = 0
  /\ \E id \in stuck :
       /\ files[id] # None /\ files[id][1] < cl.t - MaxAgeHours
       /\ PointsTo(history, id) # {}

\* C34: a job deleted while its run is in progress is never created again: once
\* the store does not hold a submitted id it never holds it again, and the run's
\* next update finds no job, raises KeyError and leaves the store as it is
C34_DeletedJobStaysDeleted ==
  [][\A id \in JobIds :
       (run[id].pc # "none" /\ ~HasJob(jobs, id))
         => /\ ~HasJob(jobs', id)
            /\ (run[id].pc \in {"queued", "recorded", "raised"} /\ run'[id] # run[id])
                 => /\ jobs' = jobs /\ jobsDoc' = jobsDoc
                    /\ run'[id].pc \in {"raised", "crashed"}
                    /\ run[id].pc # "raised" => run'[id].err = "KeyError"]_vars

C34_Witness ==
  \E id \in JobIds :
    /\ ~HasJob(jobs, id)
    /\ run[id].pc = "crashed" /\ run[id].err = "KeyError"
    /\ files[id] # None
    /\ HasEntry(history, id)

\* C35: a job whose run has set it running and called synthesize eventually is
\* succeeded or failed in the store, unless it is deleted: whatever synthesize or the
\* history write raises, _run_job's except clause records the job as failed
C35_RunReachesTerminal ==
  \A id \in JobIds :
    (run[id].pc = "running")
      ~> (~HasJob(jobs, id) \/ JobOf(jobs, id).status \in Terminal)

C35_Witness ==
  \E id \in JobIds :
    /\ run[id].pc = "done" /\ run[id].err = "history write"
    /\ HasJob(jobs, id) /\ JobOf(jobs, id).status = "failed"
    /\ files[id] # None

\* C36: a job submitted with async_mode and deleted before its background run
\* starts: the run's first step is the status update that raises KeyError, after
\* which the run takes no step; the store is left alone, no artifact is written for
\* the job id and no history entry is appended for it
C36_DeletedBeforeRunStops ==
  [][\A id \in JobIds :
       /\ (run[id].pc = "queued" /\ run[id].ret # None /\ ~HasJob(jobs, id))
            => /\ files[id] = None /\ files'[id] = None
               /\ ~HasEntry(history, id) /\ ~HasEntry(history', id)
               /\ run'[id] # run[id]
                    => /\ run'[id].pc = "crashed" /\ run'[id].err = "KeyError"
                       /\ jobs' = jobs /\ jobsDoc' = jobsDoc
       /\ (run[id].pc = "crashed" /\ run[id].err = "KeyError" /\ ~run[id].wrote)
            => /\ run'[id] = run[id]
               /\ files[id] = None /\ files'[id] = None
               /\ ~HasEntry(history, id) /\ ~HasEntry(history', id)]_vars

C36_Witness ==
  \E id \in JobIds :
    /\ run[id].ret # None /\ run[id].ret[1].status = "queued"
    /\ run[id].pc = "crashed" /\ run[id].err = "KeyError"
    /\ ~run[id].wrote
    /\ ~HasJob(jobs, id)
    /\ files[id] = None
    /\ ~HasEntry(history, id)

\* a is b with some entries left out: the entries of a are entries of b, at
\* increasing positions
IsSubsequence(a, b) ==
  \E f \in [1 .. Len(a) -> 1 .. Len(b)] :
    /\ \A i \in 1 .. Len(a) : a[i] = b[f[i]]
    /\ \A i, k \in 1 .. Len(a) : i < k => f[i] < f[k]

\* C37: a cleanup accounts for every entry it read exactly once: removed_history
\* plus remaining_history is the number of entries read, remaining_history is the
\* length of the history it writes, and the history it writes is a subsequence of
\* the one it read, in the same order
C37_CleanupAccountsForEveryEntry ==
  [][(cl.pc = "read" /\ cl'.pc = "idle")
     => /\ cl'.removed_history + cl'.remaining_history = Len(cl.snap)
        /\ cl'.remaining_history = Len(history')
        /\ cl'.removed_history >= 0
        /\ IsSubsequence(history', cl.snap)]_vars

C37_Witness ==
  /\ cl.pc = "idle"
  /\ cl.removed_history = 1
  /\ cl.remaining_history = 1
  /\ Len(history) = 1
  /\ history[1].job_id = NewId

\* an entry the cleanup at t has no reason to drop: its file, if it names one, exists,
\* and its created_at is not older than the cutoff, or cannot be parsed
FreshEntry(e, fs, t) ==
  /\ e.audio_path = None \/ fs[e.audio_path[1]] # None
  /\ FromIsoFormat(e.created_at) = None
       \/ FromIsoFormat(e.created_at)[1] >= t - MaxAgeHours

\* C38: a cleanup removes nothing fresh: the sweep leaves every file whose
\* modification time is not older than the cutoff, and the history it writes holds
\* every fresh entry it read that is among the first max_history fresh ones
C38_CleanupKeepsFresh ==
  [][/\ (cl.pc = "idle" /\ cl'.pc = "swept")
        => \A id \in JobIds :
             (files[id] # None /\ files[id][1] >= cl'.t - MaxAgeHours)
               => files'[id] = files[id] /\ id \notin cl'.swept
     /\ (cl.pc = "read" /\ cl'.pc = "idle")
        => /\ files' = files
           /\ \A i \in 1 .. Len(cl.snap) :
                (/\ FreshEntry(cl.snap[i], files, cl.t)
                 /\ Cardinality({k \in 1 .. i : FreshEntry(cl.snap[k], files, cl.t)})
                      <= MaxHistory)
                  => \E k \in 1 .. Len(history') : history'[k] = cl.snap[i]]_vars

C38_Witness ==
  /\ cl.pc = "idle" /\ cl.seq > 0
  /\ \E i \in 1 .. Len(history) :
       /\ history[i].created_at = IsoFormat(cl.t - MaxAgeHours)
       /\ history[i].audio_path # None
       /\ files[history[i].audio_path[1]] = Some(cl.t - MaxAgeHours)

\* the download calls inside the try block: in the loop or in its finally clause
InDownload == {c \in Downloaders : mm.call[c].pc \in {"loop", "finally", "resetting"}}

\* C39: download is single-flight: at most one call is inside the download loop at a
\* time, and the flag is set exactly while one is; a call that finds the flag set
\* returns the status without entering the loop; and the call that leaves the
\* finally clause leaves the flag false, whether its loop completed or raised
C39_DownloadSingleFlight ==
  /\ [](/\ Cardinality(InDownload) <= 1
        /\ mm.downloading = (InDownload # {}))
  /\ [][\A c \in Downloaders :
          /\ (mm.call[c].pc = "tested" /\ mm.call[c].saw /\ mm'.call[c] # mm.call[c])
               => /\ mm'.call[c].pc = "returned" /\ mm'.call[c].out = "status"
                  /\ mm'.downloading = mm.downloading
          /\ (mm.call[c].pc = "resetting" /\ mm'.call[c] # mm.call[c])
               => /\ mm'.call[c].pc \in {"returned", "raised"}
                  /\ ~mm'.downloading]_vars

C39_Witness ==
  \E c, d, e \in Downloaders :
    /\ mm.call[c].pc = "raised" /\ mm.call[c].left > 0
    /\ mm.call[d].pc = "returned" /\ mm.call[d].saw /\ mm.call[d].out = "status"
    /\ mm.call[e].pc = "loop"
    /\ mm.downloading

=============================================================================
